---------------------------- MODULE Spec2Model ----------------------------
(***************************************************************************)
(* Model of the per-attribute extraction pipeline of the PDF               *)
(* auto-extraction application: the batch loop of app.py, the response     *)
(* cleaning of llm_interface._invoke_chain_and_process and the card        *)
(* parsing / badge colouring of app.py.                                    *)
(*                                                                         *)
(* Text is modelled character by character: a Python str is a sequence of  *)
(* one-character strings, so that find / strip / slicing / substring tests *)
(* and json.loads are computed the way the code computes them.             *)
(***************************************************************************)
EXTENDS Integers, Sequences, FiniteSets, TLC

(***************************************************************************)
(* Python str primitives (0-based indices, -1 for "not found").            *)
(***************************************************************************)
Whitespace == {" ", "\n", "\t", "\r"}

UpperCase == <<"A","B","C","D","E","F","G","H","I","J","K","L","M",
               "N","O","P","Q","R","S","T","U","V","W","X","Y","Z">>
LowerCase == <<"a","b","c","d","e","f","g","h","i","j","k","l","m",
               "n","o","p","q","r","s","t","u","v","w","x","y","z">>

\* str.lower() on one character
LowerChar(c) ==
    IF \E i \in 1..26 : UpperCase[i] = c
    THEN LowerCase[CHOOSE i \in 1..26 : UpperCase[i] = c]
    ELSE c

\* str.lower()
Lower(s) == [i \in 1..Len(s) |-> LowerChar(s[i])]

\* s[a:b] for 0 <= a, b <= len(s)
Slice(s, a, b) == SubSeq(s, a + 1, b)

\* s.startswith(p)
StartsWith(s, p) == Len(p) <= Len(s) /\ SubSeq(s, 1, Len(p)) = p

\* s.endswith(p)
EndsWith(s, p) ==
    Len(p) <= Len(s) /\ SubSeq(s, Len(s) - Len(p) + 1, Len(s)) = p

\* the 0-based offsets at which sub occurs in s
Occurrences(s, sub) ==
    {i \in 0..(Len(s) - Len(sub)) : SubSeq(s, i + 1, i + Len(sub)) = sub}

\* s.find(sub)
Find(s, sub) ==
    IF Occurrences(s, sub) = {} THEN -1
    ELSE CHOOSE i \in Occurrences(s, sub) :
             \A j \in Occurrences(s, sub) : i <= j

\* s.rfind(sub)
RFind(s, sub) ==
    IF Occurrences(s, sub) = {} THEN -1
    ELSE CHOOSE i \in Occurrences(s, sub) :
             \A j \in Occurrences(s, sub) : j <= i

\* sub in s
Contains(s, sub) == Occurrences(s, sub) # {}

\* s.strip()
Strip(s) ==
    LET keep == {i \in 1..Len(s) : s[i] \notin Whitespace}
    IN  IF keep = {} THEN <<>>
        ELSE SubSeq(s, CHOOSE i \in keep : \A j \in keep : i <= j,
                       CHOOSE i \in keep : \A j \in keep : j <= i)

(***************************************************************************)
(* json.loads / json.dumps of the Python standard library, as far as the   *)
(* code relies on them.  A parsed value is [t, s, kids]: t the JSON type,  *)
(* s the text of a string or number, kids the members of an object (in     *)
(* source order, [k, v]) or the items of an array ([k |-> <<>>, v]).       *)
(***************************************************************************)
JsonWs == {" ", "\n", "\t", "\r"}
Digits == {"0", "1", "2", "3", "4", "5", "6", "7", "8", "9"}
HexDigits == Digits \cup {"a", "b", "c", "d", "e", "f", "A", "B", "C", "D", "E", "F"}
ControlChars == {"\n", "\t", "\r", "\f"}

JVal(t, s, kids) == [t |-> t, s |-> s, kids |-> kids]
JNone == JVal("none", <<>>, <<>>)

\* a parse step: ok, the value, and the 1-based position after it
POk(v, n) == [ok |-> TRUE, val |-> v, next |-> n]
PFail == [ok |-> FALSE, val |-> JNone, next |-> 0]

\* s[p:p+len(w)] == w, p 1-based
At(s, p, w) == p + Len(w) - 1 <= Len(s) /\ SubSeq(s, p, p + Len(w) - 1) = w

RECURSIVE SkipWs(_, _)
SkipWs(s, p) ==
    IF p <= Len(s) /\ s[p] \in JsonWs THEN SkipWs(s, p + 1) ELSE p

\* the end (exclusive) of the run of digits starting at p
RECURSIVE SkipDigits(_, _)
SkipDigits(s, p) ==
    IF p <= Len(s) /\ s[p] \in Digits THEN SkipDigits(s, p + 1) ELSE p

\* the least element of a non-empty set of numbers
Least(S) == CHOOSE i \in S : \A j \in S : i <= j
\* the n-th smallest element of a set of numbers
Nth(S, n) == CHOOSE i \in S : Cardinality({j \in S : j <= i}) = n

\* the number of consecutive backslashes that end just before position j,
\* counted back to position p
BackslashRun(s, p, j) ==
    Cardinality({r \in 1..(j - p) : \A i \in (j - r)..(j - 1) : s[i] = "\\"})

\* the character an escape sequence \c stands for (\b and \uXXXX are kept
\* as the named characters "\\b" and "\\u", the latter followed by its digits)
Unescape(c) ==
    CASE c = "n" -> "\n"
      [] c = "t" -> "\t"
      [] c = "r" -> "\r"
      [] c = "f" -> "\f"
      [] c = "b" -> "\\b"
      [] c = "u" -> "\\u"
      [] OTHER -> c

\* the quotes at or after p that no backslash escapes
OpenQuotes(s, p) ==
    {j \in p..Len(s) : s[j] = "\"" /\ BackslashRun(s, p, j) % 2 = 0}

\* the backslashes in p..close-1 that open an escape sequence
EscapeOpens(s, p, close) ==
    {i \in p..(close - 1) : s[i] = "\\" /\ BackslashRun(s, p, i) % 2 = 0}

\* the text of the string whose characters are at the positions kept
DecodeString(s, opens, kept) ==
    [n \in 1..Cardinality(kept) |->
        IF (Nth(kept, n) - 1) \in opens THEN Unescape(s[Nth(kept, n)])
        ELSE s[Nth(kept, n)]]

ScanStringBody(s, p, close, opens) ==
    IF \E i \in p..(close - 1) :
           i \notin opens /\ (i - 1) \notin opens /\ s[i] \in ControlChars
    THEN PFail
    ELSE IF \E i \in opens :
               \/ s[i + 1] \notin {"\"", "\\", "/", "b", "f", "n", "r", "t", "u"}
               \/ /\ s[i + 1] = "u"
                  /\ ~(i + 5 < close
                       /\ \A h \in (i + 2)..(i + 5) : s[h] \in HexDigits)
    THEN PFail
    ELSE POk(JVal("str",
                  DecodeString(s, opens, {i \in p..(close - 1) : i \notin opens}),
                  <<>>),
             close + 1)

ScanStringTo(s, p, close) == ScanStringBody(s, p, close, EscapeOpens(s, p, close))

\* json.decoder.py_scanstring after the opening quote (strict mode): the
\* string ends at the first quote that no backslash escapes
ScanString(s, p) ==
    IF OpenQuotes(s, p) = {} THEN PFail
    ELSE ScanStringTo(s, p, Least(OpenQuotes(s, p)))

\* json.scanner NUMBER_RE: (-?(?:0|[1-9]\d*))(\.\d+)?([eE][-+]?\d+)?
\* q is where the integer part starts, and so on to the end of the match
NumberEnd(s, p, q, intEnd, fracEnd, expEnd) ==
    IF intEnd = q THEN PFail
    ELSE POk(JVal(IF expEnd = intEnd THEN "int" ELSE "float",
                  SubSeq(s, p, expEnd - 1), <<>>), expEnd)

ExpEnd(s, fracEnd, signEnd) ==
    IF fracEnd <= Len(s) /\ s[fracEnd] \in {"e", "E"}
       /\ signEnd <= Len(s) /\ s[signEnd] \in Digits
    THEN SkipDigits(s, signEnd) ELSE fracEnd

SignEnd(s, fracEnd) ==
    IF fracEnd + 1 <= Len(s) /\ s[fracEnd] \in {"e", "E"}
       /\ s[fracEnd + 1] \in {"+", "-"}
    THEN fracEnd + 2 ELSE fracEnd + 1

NumberFrac(s, p, q, intEnd, fracEnd) ==
    NumberEnd(s, p, q, intEnd, fracEnd, ExpEnd(s, fracEnd, SignEnd(s, fracEnd)))

NumberInt(s, p, q, intEnd) ==
    NumberFrac(s, p, q, intEnd,
               IF intEnd + 1 <= Len(s) /\ s[intEnd] = "."
                  /\ s[intEnd + 1] \in Digits
               THEN SkipDigits(s, intEnd + 1) ELSE intEnd)

NumberFrom(s, p, q) ==
    NumberInt(s, p, q,
              IF q <= Len(s) /\ s[q] = "0" THEN q + 1 ELSE SkipDigits(s, q))

ScanNumber(s, p) ==
    NumberFrom(s, p, IF p <= Len(s) /\ s[p] = "-" THEN p + 1 ELSE p)

\* json.scanner.py_make_scanner._scan_once (what = "value"), with
\* json.decoder.JSONObject from the quote that opens a key (what = "members",
\* then "colon" with the key read, then "member" with its value read) and
\* json.decoder.JSONArray from an item (what = "items", then "item")
RECURSIVE Scan(_, _, _, _, _)
Scan(what, s, p, acc, got) ==
    CASE what = "members" ->
            IF ~At(s, p, <<"\"">>) THEN PFail
            ELSE Scan("colon", s, p, acc, ScanString(s, p + 1))
      [] what = "colon" ->
            IF ~got.ok THEN PFail
            ELSE IF ~At(s, SkipWs(s, got.next), <<":">>) THEN PFail
            ELSE Scan("member", s, p,
                      Append(acc, [k |-> got.val.s, v |-> JNone]),
                      Scan("value", s, SkipWs(s, SkipWs(s, got.next) + 1),
                           <<>>, PFail))
      [] what = "member" ->
            IF ~got.ok THEN PFail
            ELSE Scan("next member", s, SkipWs(s, got.next),
                      [acc EXCEPT ![Len(acc)].v = got.val], PFail)
      [] what = "next member" ->
            IF At(s, p, <<"}">>) THEN POk(JVal("dict", <<>>, acc), p + 1)
            ELSE IF At(s, p, <<",">>)
            THEN Scan("members", s, SkipWs(s, p + 1), acc, PFail)
            ELSE PFail
      [] what = "items" ->
            Scan("item", s, p, acc, Scan("value", s, p, <<>>, PFail))
      [] what = "item" ->
            IF ~got.ok THEN PFail
            ELSE Scan("next item", s, SkipWs(s, got.next),
                      Append(acc, [k |-> <<>>, v |-> got.val]), PFail)
      [] what = "next item" ->
            IF At(s, p, <<"]">>) THEN POk(JVal("list", <<>>, acc), p + 1)
            ELSE IF At(s, p, <<",">>)
            THEN Scan("items", s, SkipWs(s, p + 1), acc, PFail)
            ELSE PFail
      [] what = "object" ->
            IF At(s, p, <<"}">>) THEN POk(JVal("dict", <<>>, <<>>), p + 1)
            ELSE Scan("members", s, p, <<>>, PFail)
      [] what = "array" ->
            IF At(s, p, <<"]">>) THEN POk(JVal("list", <<>>, <<>>), p + 1)
            ELSE Scan("items", s, p, <<>>, PFail)
      [] what = "number" ->
            IF got.ok THEN got
            ELSE IF At(s, p, <<"N", "a", "N">>)
            THEN POk(JVal("float", <<"n", "a", "n">>, <<>>), p + 3)
            ELSE IF At(s, p, <<"I", "n", "f", "i", "n", "i", "t", "y">>)
            THEN POk(JVal("float", <<"i", "n", "f">>, <<>>), p + 8)
            ELSE IF At(s, p, <<"-", "I", "n", "f", "i", "n", "i", "t", "y">>)
            THEN POk(JVal("float", <<"-", "i", "n", "f">>, <<>>), p + 9)
            ELSE PFail
      [] what = "value" ->
            IF p > Len(s) THEN PFail
            ELSE IF s[p] = "\"" THEN ScanString(s, p + 1)
            ELSE IF s[p] = "{" THEN Scan("object", s, SkipWs(s, p + 1), <<>>, PFail)
            ELSE IF s[p] = "[" THEN Scan("array", s, SkipWs(s, p + 1), <<>>, PFail)
            ELSE IF At(s, p, <<"n", "u", "l", "l">>)
            THEN POk(JVal("null", <<>>, <<>>), p + 4)
            ELSE IF At(s, p, <<"t", "r", "u", "e">>)
            THEN POk(JVal("true", <<>>, <<>>), p + 4)
            ELSE IF At(s, p, <<"f", "a", "l", "s", "e">>)
            THEN POk(JVal("false", <<>>, <<>>), p + 5)
            ELSE Scan("number", s, p, <<>>, ScanNumber(s, p))

ScanOnce(s, p) == Scan("value", s, p, <<>>, PFail)

\* the whole text must be one value between whitespace
LoadsEnd(s, r) ==
    IF r.ok /\ SkipWs(s, r.next) = Len(s) + 1
    THEN [ok |-> TRUE, val |-> r.val]
    ELSE [ok |-> FALSE, val |-> JNone]

\* json.loads(s): [ok |-> FALSE] stands for json.JSONDecodeError
JsonLoads(s) == LoadsEnd(s, ScanOnce(s, SkipWs(s, 1)))

\* key in d, for a parsed dict d
DictHas(d, key) == \E i \in 1..Len(d.kids) : d.kids[i].k = key

\* d[key]: a repeated key keeps its last value
DictGet(d, key) ==
    LET hits == {i \in 1..Len(d.kids) : d.kids[i].k = key}
    IN  d.kids[CHOOSE i \in hits : \A j \in hits : j <= i].v

\* the body of a JSON string literal as json.dumps writes it: quote,
\* backslash and the control characters are written as two characters
Escaped(c) ==
    CASE c = "\n" -> "n"
      [] c = "\t" -> "t"
      [] c = "\r" -> "r"
      [] c = "\f" -> "f"
      [] OTHER -> c

JsonEscape(s) ==
    LET wide == {i \in 1..Len(s) : s[i] \in {"\"", "\\"} \cup ControlChars}
        \* the position of s[i] (of its backslash, if it gets one) in the output
        at(i) == i + Cardinality({j \in wide : j < i})
        src(n) == CHOOSE i \in 1..Len(s) :
                      at(i) = n \/ (i \in wide /\ at(i) + 1 = n)
    IN  [n \in 1..(Len(s) + Cardinality(wide)) |->
            IF src(n) \in wide /\ at(src(n)) = n THEN "\\"
            ELSE Escaped(s[src(n)])]

\* str(x) and repr(x) of a parsed JSON value (repr of a str is exact for text
\* without quotes, backslashes and control characters; a float keeps the
\* text it was written with)
RECURSIVE PyRepr(_)
RECURSIVE ReprJoin(_, _, _)
ReprJoin(d, i, isDict) ==
    IF i > Len(d.kids) THEN <<>>
    ELSE IF isDict /\ \E j \in 1..(i - 1) : d.kids[j].k = d.kids[i].k
    THEN ReprJoin(d, i + 1, isDict)
    ELSE (IF i = 1 THEN <<>> ELSE <<",", " ">>)
         \o (IF isDict
             THEN <<"'">> \o d.kids[i].k \o <<"'", ":", " ">>
                  \o PyRepr(DictGet(d, d.kids[i].k))
             ELSE PyRepr(d.kids[i].v))
         \o ReprJoin(d, i + 1, isDict)

PyRepr(v) ==
    CASE v.t = "str" -> <<"'">> \o v.s \o <<"'">>
      [] v.t = "int" -> IF v.s = <<"-", "0">> THEN <<"0">> ELSE v.s
      [] v.t = "float" -> v.s
      [] v.t = "null" -> <<"N", "o", "n", "e">>
      [] v.t = "true" -> <<"T", "r", "u", "e">>
      [] v.t = "false" -> <<"F", "a", "l", "s", "e">>
      [] v.t = "dict" -> <<"{">> \o ReprJoin(v, 1, TRUE) \o <<"}">>
      [] v.t = "list" -> <<"[">> \o ReprJoin(v, 1, FALSE) \o <<"]">>

PyStr(v) == IF v.t = "str" THEN v.s ELSE PyRepr(v)

(***************************************************************************)
(* llm_interface._invoke_chain_and_process: the cleaning of one response.  *)
(***************************************************************************)
think_start_tag == <<"<", "t", "h", "i", "n", "k", ">">>
think_end_tag == <<"<", "/", "t", "h", "i", "n", "k", ">">>
\* the backquote character (written by name: the character itself opens a
\* quotation in this notation)
BQ == "BACKQUOTE"
FenceOpen == <<BQ, BQ, BQ, "j", "s", "o", "n">>
FenceClose == <<BQ, BQ, BQ>>

\* the value "no response" of chain.ainvoke (Python None)
PyNone == <<"<None>">>

\* json.dumps({"error": msg})
JsonDumpsError(msg) ==
    <<"{", "\"", "e", "r", "r", "o", "r", "\"", ":", " ", "\"">>
    \o JsonEscape(msg) \o <<"\"", "}">>

NoneMessage(attribute_key) ==
    <<"C", "h", "a", "i", "n", " ", "i", "n", "v", "o", "c", "a", "t", "i", "o", "n",
      " ", "r", "e", "t", "u", "r", "n", "e", "d", " ", "N", "o", "n", "e", " ",
      "f", "o", "r", " ">> \o attribute_key

\* 1. Remove <think> tags
StripThink(cleaned_response) ==
    LET start_index_think == Find(cleaned_response, think_start_tag)
        end_index_think == Find(cleaned_response, think_end_tag)
    IN  IF start_index_think # -1 /\ end_index_think # -1
           /\ end_index_think > start_index_think
        THEN Strip(Slice(cleaned_response, end_index_think + Len(think_end_tag),
                         Len(cleaned_response)))
        ELSE cleaned_response

\* a fence removal that forgets the closing marker
StripFenceOpenOnly(cleaned_response) ==
    IF StartsWith(Strip(cleaned_response), FenceOpen)
    THEN Strip(Slice(Strip(cleaned_response), 7, Len(Strip(cleaned_response))))
    ELSE cleaned_response

\* 2. Remove the json code fence markdown
StripFence(cleaned_response) ==
    IF StartsWith(Strip(cleaned_response), FenceOpen)
    THEN LET opened == Slice(Strip(cleaned_response), 7,
                             Len(Strip(cleaned_response)))
             closed == IF EndsWith(opened, FenceClose)
                       THEN Slice(opened, 0, Len(opened) - 3)
                       ELSE opened
         IN  Strip(closed)
    ELSE cleaned_response

\* an isolation that keeps the braced part without parsing it
IsolateJsonUnchecked(cleaned_response) ==
    LET first_brace == Find(cleaned_response, <<"{">>)
        last_brace == RFind(cleaned_response, <<"}">>)
    IN  IF first_brace # -1 /\ last_brace # -1 /\ last_brace > first_brace
        THEN Slice(cleaned_response, first_brace, last_brace + 1)
        ELSE cleaned_response

\* 3. Find the first '{' and the last '}' to isolate the JSON object
IsolateJson(cleaned_response) ==
    LET first_brace == Find(cleaned_response, <<"{">>)
        last_brace == RFind(cleaned_response, <<"}">>)
        potential_json == Slice(cleaned_response, first_brace, last_brace + 1)
    IN  IF first_brace # -1 /\ last_brace # -1 /\ last_brace > first_brace
        THEN IF JsonLoads(potential_json).ok THEN potential_json
             ELSE cleaned_response
        ELSE cleaned_response

InvokeChainAndProcess(response, attribute_key) ==
    IF response = PyNone
    THEN JsonDumpsError(NoneMessage(attribute_key))
    ELSE IsolateJson(StripFence(StripThink(response)))

(***************************************************************************)
(* app.py: the card of one attribute (think-block removal, result parsing, *)
(* badge colour).                                                          *)
(***************************************************************************)
RED == "#dc3545"
GREEN == "#28a745"
YELLOW == "#ffc107"
GREY == "#6c757d"

RateLimitHit == <<"R", "a", "t", "e", " ", "L", "i", "m", "i", "t", " ", "H", "i", "t">>
ErrorPrefix == <<"E", "r", "r", "o", "r", ":", " ">>
KeyNotFound == <<"K", "e", "y", " ", "n", "o", "t", " ", "f", "o", "u", "n", "d">>
InvalidJSON == <<"I", "n", "v", "a", "l", "i", "d", " ", "J", "S", "O", "N">>
ParsingError == <<"P", "a", "r", "s", "i", "n", "g", " ", "E", "r", "r", "o", "r">>
ErrorKey == <<"e", "r", "r", "o", "r">>
rate_limit == <<"r", "a", "t", "e", " ", "l", "i", "m", "i", "t">>
not_found == <<"n", "o", "t", " ", "f", "o", "u", "n", "d">>
invalid_json == <<"i", "n", "v", "a", "l", "i", "d", " ", "j", "s", "o", "n">>
key_not_found == <<"k", "e", "y", " ", "n", "o", "t", " ", "f", "o", "u", "n", "d">>

\* the think block removal of the card: json_string_to_parse
CardThinkStrip(raw_result) ==
    LET start_index == Find(raw_result, think_start_tag)
        end_index == Find(raw_result, think_end_tag)
    IN  IF start_index # -1 /\ end_index # -1 /\ end_index > start_index
        THEN Strip(Slice(raw_result, end_index + Len(think_end_tag),
                         Len(raw_result)))
        ELSE Strip(raw_result)

\* the body of the try block: the exception it raises ("none" when it
\* completes), the branch it took and the final_answer_value it assigned
Raised(exc) == [exc |-> exc, branch |-> "raised", value |-> <<>>]
Assigned(branch, value) == [exc |-> "none", branch |-> branch, value |-> value]

\* a rate limit test that forgets .lower()
ErrorBranchCaseSensitive(err) ==
    IF err.t # "str" THEN Raised("AttributeError")
    ELSE IF Contains(err.s, rate_limit)
    THEN Assigned("rate_limit", RateLimitHit)
    ELSE Assigned("error", ErrorPrefix \o err.s)

\* elif isinstance(parsed_json, dict) and "error" in parsed_json:
ErrorBranch(err) ==
    IF err.t # "str" THEN Raised("AttributeError")
    ELSE IF Contains(Lower(err.s), rate_limit)
    THEN Assigned("rate_limit", RateLimitHit)
    ELSE Assigned("error", ErrorPrefix \o err.s)

\* the statements after parsed_json = json.loads(json_string_to_parse)
Branches(loaded, attribute_key) ==
    IF ~loaded.ok THEN Raised("JSONDecodeError")
    ELSE IF loaded.val.t = "dict" /\ DictHas(loaded.val, attribute_key)
    THEN Assigned("key", PyStr(DictGet(loaded.val, attribute_key)))
    ELSE IF loaded.val.t = "dict" /\ DictHas(loaded.val, ErrorKey)
    THEN ErrorBranch(DictGet(loaded.val, ErrorKey))
    ELSE Assigned("key_missing", KeyNotFound)

TryParse(json_string_to_parse, attribute_key) ==
    IF json_string_to_parse = <<>> THEN Raised("JSONDecodeError")
    ELSE Branches(JsonLoads(json_string_to_parse), attribute_key)

\* except clauses in the other order: except Exception takes every exception
ExceptClausesSwapped(exc) ==
    [escaped |-> FALSE, branch |-> "parsing_error", value |-> ParsingError]

\* the first except clause alone: any other exception leaves the card
ExceptClausesJsonOnly(exc) ==
    IF exc = "JSONDecodeError"
    THEN [escaped |-> FALSE, branch |-> "invalid_json", value |-> InvalidJSON]
    ELSE [escaped |-> TRUE, branch |-> "raised", value |-> <<>>]

\* the except clauses of the result parsing: what becomes of an exception
\* raised by the try block
ExceptClauses(exc) ==
    IF exc = "JSONDecodeError"
    THEN [escaped |-> FALSE, branch |-> "invalid_json", value |-> InvalidJSON]
    ELSE [escaped |-> FALSE, branch |-> "parsing_error", value |-> ParsingError]

\* --- Display Badge ---
BadgeColor(parse_error, final_answer_value) ==
    LET v == Lower(final_answer_value)
    IN  IF ~parse_error /\ ~Contains(v, ErrorKey) /\ ~Contains(v, not_found)
           /\ ~Contains(v, invalid_json) /\ ~Contains(v, key_not_found)
           /\ ~Contains(v, rate_limit)
        THEN GREEN
        ELSE IF Contains(v, not_found) THEN YELLOW
        ELSE IF Contains(v, rate_limit) THEN GREY
        ELSE RED

\* the card of one attribute: what the try block did (body), what the
\* except clauses made of it (caught), and the badge
CardShown(attribute_key, json_string_to_parse, parse_error, branch, escaped, final_answer_value) ==
    [attribute_key |-> attribute_key,
     json_string_to_parse |-> json_string_to_parse,
     final_answer_value |-> final_answer_value,
     parse_error |-> parse_error,
     branch |-> branch,
     escaped |-> escaped,
     badge_color |-> BadgeColor(parse_error, final_answer_value)]

CardParsed(attribute_key, json_string_to_parse, body, caught) ==
    IF body.exc = "none"
    THEN CardShown(attribute_key, json_string_to_parse, FALSE, body.branch,
                   FALSE, body.value)
    ELSE CardShown(attribute_key, json_string_to_parse, TRUE, caught.branch,
                   caught.escaped, caught.value)

CardTried(attribute_key, json_string_to_parse, body) ==
    CardParsed(attribute_key, json_string_to_parse, body, ExceptClauses(body.exc))

CardFor(attribute_key, json_string_to_parse) ==
    CardTried(attribute_key, json_string_to_parse,
              TryParse(json_string_to_parse, attribute_key))

\* the card rendered for one attribute from the string run_extraction gave
Card(raw_result, attribute_key) ==
    CardFor(attribute_key, CardThinkStrip(raw_result))

(***************************************************************************)
(* llm_interface.py: format_docs, the context block of the prompt.  A      *)
(* chunk is a Document: page_content and the metadata source, page and     *)
(* start_index, each of which may be absent (the empty tuple) or hold one   *)
(* value.                                                                  *)
(***************************************************************************)
Absent == <<>>

\* str(n) for a natural number n
RECURSIVE Decimal(_)
Decimal(n) ==
    IF n < 10 THEN <<SubSeq(<<"0", "1", "2", "3", "4", "5", "6", "7", "8", "9">>,
                            n + 1, n + 1)[1]>>
    ELSE Decimal(n \div 10) \o Decimal(n % 10)

\* the two characters backslash and n the source writes between the label
\* and the body, and the divider joined between segments
LabelEnd == <<"\\", "n">>
Divider == <<"\\", "n", "\\", "n", "-", "-", "-", "\\", "n", "\\", "n">>
Unknown == <<"U", "n", "k", "n", "o", "w", "n">>
NotAvailable == <<"N", "/", "A">>

\* doc.metadata.get('source', 'Unknown') and doc.metadata.get('page', 'N/A')
SourceOf(doc) == IF doc.source = Absent THEN Unknown ELSE doc.source[1]
PageOf(doc) == IF doc.page = Absent THEN NotAvailable ELSE Decimal(doc.page[1])

\* a label that numbers the chunks from 0
ChunkInfoFromZero(i, doc) ==
    <<"C", "h", "u", "n", "k", " ">> \o Decimal(i - 1)
    \o (IF doc.start_index # Absent
        THEN <<" ", "(", "s", "t", "a", "r", "t", "s", " ", "a", "t", " ", "c",
               "h", "a", "r", " ">> \o Decimal(doc.start_index[1]) \o <<")">>
        ELSE <<>>)

\* chunk_info of the i-th chunk, i counted from 1
ChunkInfo(i, doc) ==
    <<"C", "h", "u", "n", "k", " ">> \o Decimal(i)
    \o (IF doc.start_index # Absent
        THEN <<" ", "(", "s", "t", "a", "r", "t", "s", " ", "a", "t", " ", "c",
               "h", "a", "r", " ">> \o Decimal(doc.start_index[1]) \o <<")">>
        ELSE <<>>)

\* the element appended to context_parts for the i-th chunk
ContextPart(i, doc) ==
    ChunkInfo(i, doc) \o <<" ", "f", "r", "o", "m", " ", "'">> \o SourceOf(doc)
    \o <<"'", " ", "(", "P", "a", "g", "e", " ">> \o PageOf(doc) \o <<")", ":">>
    \o LabelEnd \o doc.page_content

\* sep.join(parts)
RECURSIVE Join(_, _)
Join(parts, sep) ==
    IF parts = <<>> THEN <<>>
    ELSE IF Len(parts) = 1 THEN parts[1]
    ELSE parts[1] \o sep \o Join(Tail(parts), sep)

\* a format_docs that writes a placeholder when there is no chunk
FormatDocsPlaceholder(docs) ==
    IF docs = <<>> THEN <<"N", "o", " ", "c", "o", "n", "t", "e", "x", "t">>
    ELSE Join([i \in 1..Len(docs) |-> ContextPart(i, docs[i])], Divider)

FormatDocs(docs) ==
    Join([i \in 1..Len(docs) |-> ContextPart(i, docs[i])], Divider)

(***************************************************************************)
(* Bounds of the model.                                                    *)
(***************************************************************************)
\* attributes of a batch (the application runs 22)
MaxAttrs == 3
\* reasoning blocks in front of a completion
MaxBlocks == 3
\* chunks a retrieval returns (the application asks for RETRIEVER_SEARCH_K)
MaxChunks == 2
\* "process documents" actions over all sessions
MaxUploads == 2
\* files uploaded to one process_uploaded_pdfs call
MaxFiles == 5
\* calls of get_traceparts_product_data in a row
MaxLookups == 3

(***************************************************************************)
(* The attribute set: the first keys of prompts_to_run, in declared order. *)
(***************************************************************************)
MaterialFilling == <<"M", "a", "t", "e", "r", "i", "a", "l", " ", "F", "i", "l", "l", "i", "n", "g">>
MaterialName == <<"M", "a", "t", "e", "r", "i", "a", "l", " ", "N", "a", "m", "e">>
PullToSeat == <<"P", "u", "l", "l", "-", "t", "o", "-", "S", "e", "a", "t">>
Gender == <<"G", "e", "n", "d", "e", "r">>
NumberOfCavities == <<"N", "u", "m", "b", "e", "r", " ", "o", "f", " ", "C", "a", "v", "i", "t", "i", "e", "s">>

prompts_to_run ==
    SubSeq(<<MaterialFilling, MaterialName, PullToSeat, Gender, NumberOfCavities>>,
           1, MaxAttrs)

(***************************************************************************)
(* What the extraction chain can do when invoked: return a text, return    *)
(* None, or raise an exception with a message.                             *)
(***************************************************************************)
Returns(text) == [kind |-> "return", text |-> text]
ReturnsNone == [kind |-> "return", text |-> PyNone]
Raises(message) == [kind |-> "raise", text |-> message]
NoOutcome == [kind |-> "idle", text |-> <<>>]
\* the call is cut short by a signal that is not an Exception (KeyboardInterrupt,
\* asyncio.CancelledError, the script runner's stop): a BaseException
Cancels == [kind |-> "cancel", text |-> <<>>]

\* a JSON string literal and a one-member / two-member JSON object
Q(s) == <<"\"">> \o s \o <<"\"">>
Obj(k, rawValue) == <<"{">> \o Q(k) \o <<":", " ">> \o rawValue \o <<"}">>
Obj2(k1, v1, k2, v2) ==
    <<"{">> \o Q(k1) \o <<":", " ">> \o v1 \o <<",", " ">>
    \o Q(k2) \o <<":", " ">> \o v2 \o <<"}">>

Male == <<"M", "a", "l", "e">>
NOT_FOUND == <<"N", "O", "T", " ", "F", "O", "U", "N", "D">>
ErrorProof == <<"E", "r", "r", "o", "r", "-", "p", "r", "o", "o", "f">>
RateLimitExceeded == <<"r", "a", "t", "e", " ", "l", "i", "m", "i", "t", " ", "e", "x", "c", "e", "e", "d", "e", "d">>
RateLimitReached == <<"R", "a", "t", "e", " ", "L", "i", "m", "i", "t", " ", "r", "e", "a", "c", "h", "e", "d">>
RATE_LIMIT == <<"R", "A", "T", "E", " ", "L", "I", "M", "I", "T">>
Timeout == <<"t", "i", "m", "e", "o", "u", "t">>
FileNotFound == <<"f", "i", "l", "e", " ", "n", "o", "t", " ", "f", "o", "u", "n", "d">>
ModelNotFound == <<"m", "o", "d", "e", "l", " ", "n", "o", "t", " ", "f", "o", "u", "n", "d">>
BadQuoted == <<"b", "a", "d", " ", "\"", "x", "\"">>
WindowsPath == <<"C", ":", "\\", "x">>
Abc == <<"a", "b", "c">>
Other == <<"o", "t", "h", "e", "r">>

\* the messages an exception of the completion call may carry
ErrorTexts ==
    {Timeout, BadQuoted, WindowsPath, RateLimitExceeded, RateLimitReached,
     ModelNotFound, <<>>}

(***************************************************************************)
(* run_extraction(prompt_text, attribute_key, chain): invokes the chain    *)
(* and hands its response to _invoke_chain_and_process; an exception of    *)
(* the chain propagates to the caller.                                     *)
(***************************************************************************)
RunExtraction(outcome, attribute_key) ==
    IF outcome.kind = "raise"
    THEN [raised |-> TRUE, exc |-> "Exception", text |-> outcome.text]
    ELSE IF outcome.kind = "cancel"
    THEN [raised |-> TRUE, exc |-> "BaseException", text |-> outcome.text]
    ELSE [raised |-> FALSE, exc |-> "none",
          text |-> InvokeChainAndProcess(outcome.text, attribute_key)]

\* json_result_str at the start of an iteration
ExtractionNotRun ==
    <<"{", "\"", "e", "r", "r", "o", "r", "\"", ":", " ", "\"", "E", "x", "t", "r",
      "a", "c", "t", "i", "o", "n", " ", "n", "o", "t", " ", "r", "u", "n", ".", "\"", "}">>

\* a bare except: it takes every BaseException as well
ExceptEverything(exc) == TRUE

\* which exceptions the clause "except Exception as e" of the loop takes
ExceptException(exc) == exc = "Exception"

\* a loop without the except clause: the exception leaves the loop
ExceptionPropagates(e) == [propagates |-> TRUE, json_result_str |-> <<>>]

\* except Exception as e: of the batch loop
ExceptionDuringCall(e) ==
    [propagates |-> FALSE,
     json_result_str |->
        <<"{", "\"", "e", "r", "r", "o", "r", "\"", ":", " ", "\"", "E", "x", "c",
          "e", "p", "t", "i", "o", "n", " ", "d", "u", "r", "i", "n", "g", " ", "e",
          "x", "t", "r", "a", "c", "t", "i", "o", "n", " ", "c", "a", "l", "l", ":",
          " ">> \o e \o <<"\"", "}">>]

(***************************************************************************)
(* State.                                                                  *)
(*  - the batch loop of app.py: pc is the position inside the iteration of *)
(*    attribute idx; calls, sleeps and outcomes record what was done.      *)
(*  - one attribute taken through run_extraction and its card on its own,  *)
(*    over a wide set of chain outcomes: chain_out, attr, stage, returned, *)
(*    shown.                                                               *)
(***************************************************************************)
VARIABLES pc, idx, json_result_str, results, calls, sleeps, outcomes,
          chain_out, attr, stage, returned, shown,
          docs, context, llm_calls,
          session, collection, uploads, llm,
          prompt_input, prompt,
          uploaded_files, ingest_pc, temp_dir, saved_file_paths, tasks, opened,
          raising,
          chroma_client, constructed, callers,
          token_cache, tp_pc, http, tp_result, lookups

batchVars == <<pc, idx, json_result_str, results, calls, sleeps, outcomes>>
oneVars == <<chain_out, attr, stage, returned, shown>>
chainVars == <<docs, context, llm_calls>>
sessionVars == <<session, collection, uploads, llm>>
promptVars == <<prompt_input, prompt>>
ingestVars ==
    <<uploaded_files, ingest_pc, temp_dir, saved_file_paths, tasks, opened, raising>>
clientVars == <<chroma_client, constructed, callers>>
partsVars == <<token_cache, tp_pc, http, tp_result, lookups>>
auxVars == <<promptVars, ingestVars, clientVars, partsVars>>
vars == <<pc, idx, json_result_str, results, calls, sleeps, outcomes,
          chain_out, attr, stage, returned, shown, docs, context, llm_calls,
          session, collection, uploads, llm, prompt_input, prompt,
          uploaded_files, ingest_pc, temp_dir, saved_file_paths, tasks, opened,
          raising, chroma_client, constructed, callers,
          token_cache, tp_pc, http, tp_result, lookups>>

\* no prompt has been composed
PromptIdle == prompt_input = <<>> /\ prompt = <<>>

\* the names uploaded files may have; two uploads may share a name
FileNames == {"a.pdf", "b.pdf"}

\* no file in the temp directory
EmptyDir == [name \in FileNames |-> 0]

\* process_uploaded_pdfs is not running
IngestIdle ==
    /\ uploaded_files = <<>> /\ ingest_pc = "idle" /\ temp_dir = EmptyDir
    /\ saved_file_paths = <<>> /\ tasks = <<>> /\ opened = <<>>
    /\ raising = FALSE

\* the threads that call get_chroma_client (the script threads of the
\* sessions and of a further caller)
Callers == {"c1", "c2", "c3"}

\* _chroma_client = None, and nobody is inside get_chroma_client
ClientIdle ==
    /\ chroma_client = 0 /\ constructed = 0
    /\ callers = [c \in Callers |-> [at |-> "idle", made |-> 0, got |-> 0]]

\* get_traceparts_product_data is not running
PartsIdle ==
    /\ token_cache = "None" /\ tp_pc = "idle" /\ http = <<>>
    /\ tp_result = "pending" /\ lookups = 0

\* the parts of the program outside the batch, the chain and the sessions
\* are at rest
AuxIdle == PromptIdle /\ IngestIdle /\ ClientIdle /\ PartsIdle

\* the browser sessions; they share the module-level Chroma client and the
\* one collection name
Sessions == {"s1", "s2"}

\* st.session_state of a session after its initialisation, and the script
\* position (at "idle" the script is not running)
None == "None"
FreshSession ==
    [at |-> "idle", retriever |-> None, extraction_chain |-> None,
     processed_files |-> <<>>, process_button |-> FALSE, started |-> 0, calls |-> 0, batch_gen |-> 0, message |-> FALSE,
     shown |-> {}]

\* no collection of the configured name
NoCollection == [exists |-> FALSE, docs |-> {}, gen |-> 0]

SessionsIdle ==
    /\ session = [s \in Sessions |-> FreshSession]
    /\ collection = NoCollection
    /\ uploads = 0
    /\ llm = TRUE

NoCard == Card(<<>>, <<>>)

\* the chain outcomes the batch draws from, for attribute key k
BatchOutcomes(k) ==
    {Returns(Obj(k, Q(Male))), Returns(Obj(ErrorKey, Q(RateLimitExceeded))),
     Returns(Abc), Raises(Timeout), Raises(BadQuoted),
     Raises(RateLimitExceeded), Raises(ModelNotFound), Cancels}

BatchIdle ==
    /\ pc = "idle" /\ idx = 0 /\ json_result_str = <<>> /\ results = <<>>
    /\ calls = <<>> /\ sleeps = {} /\ outcomes = <<>>

OneIdle ==
    /\ chain_out = NoOutcome /\ attr = <<>> /\ stage = "idle"
    /\ returned = <<>> /\ shown = NoCard

ChainIdle == docs = <<>> /\ context = <<>> /\ llm_calls = <<>>

\* the script reaches the batch loop with an extraction chain present
Init ==
    /\ pc = "call"
    /\ idx = 1
    /\ json_result_str = ExtractionNotRun
    /\ results = <<>>
    /\ calls = <<>>
    /\ sleeps = {}
    /\ outcomes = <<>>
    /\ OneIdle
    /\ ChainIdle
    /\ SessionsIdle
    /\ AuxIdle

\* a loop that starts the call again without waiting for the card
AfterCallNoWait(r, h) ==
    /\ json_result_str' = IF r.raised THEN h.json_result_str ELSE r.text
    /\ pc' = "call"

\* the try block around run_extraction with its except clause: r is what
\* run_extraction did, h what the except clause makes of an exception
AfterCall(r, h) ==
    /\ json_result_str' =
          IF ~r.raised THEN r.text
          ELSE IF ExceptException(r.exc) /\ ~h.propagates
          THEN h.json_result_str ELSE json_result_str
    /\ pc' = IF ~r.raised THEN "sleep"
             ELSE IF ExceptException(r.exc) /\ ~h.propagates
             THEN "card" ELSE "aborted"

TryCall(r) == AfterCall(r, ExceptionDuringCall(r.text))

\* json_result_str = run_extraction(...) inside try, and the except clause
CallRunExtraction ==
    /\ pc = "call"
    /\ \E o \in BatchOutcomes(prompts_to_run[idx]) :
          /\ calls' = Append(calls, idx)
          /\ outcomes' = Append(outcomes, o)
          /\ TryCall(RunExtraction(o, prompts_to_run[idx]))
    /\ UNCHANGED <<idx, results, sleeps>>
    /\ UNCHANGED <<oneVars, chainVars, sessionVars, auxVars>>

\* time.sleep(SLEEP_INTERVAL_SECONDS), the last statement of the try block
Sleep ==
    /\ pc = "sleep"
    /\ sleeps' = sleeps \cup {idx}
    /\ pc' = "card"
    /\ UNCHANGED <<idx, json_result_str, results, calls, outcomes>>
    /\ UNCHANGED <<oneVars, chainVars, sessionVars, auxVars>>

\* the card c is shown; then the next iteration of the for loop
ShowCard(c) ==
    /\ results' = IF c.escaped THEN results ELSE Append(results, c)
    /\ IF c.escaped
       THEN pc' = "aborted" /\ idx' = idx
            /\ json_result_str' = json_result_str
       ELSE IF idx < Len(prompts_to_run)
       THEN pc' = "call" /\ idx' = idx + 1
            /\ json_result_str' = ExtractionNotRun
       ELSE pc' = "done" /\ idx' = idx
            /\ json_result_str' = json_result_str

\* the card of the attribute, then the next iteration of the for loop
RenderCard ==
    /\ pc = "card"
    /\ ShowCard(Card(json_result_str, prompts_to_run[idx]))
    /\ UNCHANGED <<calls, sleeps, outcomes>>
    /\ UNCHANGED <<oneVars, chainVars, sessionVars, auxVars>>

Next == CallRunExtraction \/ Sleep \/ RenderCard

Spec == Init /\ [][Next]_vars

(***************************************************************************)
(* One attribute on its own: the chain produces chain_out, run_extraction  *)
(* returns (or the except clause of the loop builds) the string, and the   *)
(* card parses it.  The completions are drawn from families that cover     *)
(* prose around an object, reasoning blocks, fences, scalars and garbage.  *)
(***************************************************************************)
Hmm == <<"h", "m", "m">>
HmmBraced == <<"{", "h", "m", "m", "}">>
Sure == <<"S", "u", "r", "e", ":", " ">>
SeeBraces == <<"s", "e", "e", " ", "{", "x", "}", " ">>
Ok == <<" ", "o", "k">>
TrailingBraces == <<" ", "{", "y", "}">>
Newline == <<"\n">>
Seven == <<"7">>
Five == <<"5">>
Null == <<"n", "u", "l", "l">>
OneList == <<"[", "1", "]">>

\* the attribute keys of this part
OneKeys == {Gender, MaterialName}

\* the raw JSON values a single-key answer carries
AnswerValues == {Q(Male), Q(NOT_FOUND), Q(ErrorProof), Q(FileNotFound), Seven, Null}

\* the well-formed single-key objects {k: v}
Answers(k) == {Obj(k, v) : v \in AnswerValues}

\* objects with an "error" key and without the attribute key
ErrorValues ==
    {Q(RateLimitExceeded), Q(RateLimitReached), Q(RATE_LIMIT), Q(Timeout),
     Q(FileNotFound), Five, Null}

ErrorObjects == {Obj(ErrorKey, v) : v \in ErrorValues}

\* JSON texts that are not an object, and texts that are not JSON
Scalars == {Five, Null, Q(Abc), OneList}
Garbage == {Abc, <<>>, <<" ">>, <<"{">>, <<"}", "{">>, <<"{", "a", "b", "c", "}">>}

Bodies(k) ==
    Answers(k) \cup ErrorObjects \cup Scalars \cup Garbage
    \cup {Obj(Other, Q(Male)), <<"{", "}">>,
          Obj2(k, Q(Male), ErrorKey, Q(Timeout)),
          Obj2(ErrorKey, Q(RateLimitExceeded), Other, Q(Male))}

Prefixes == {<<>>, Sure, <<" ", "\n">>, SeeBraces}
Suffixes == {<<>>, Ok, TrailingBraces, Newline}

\* prose around a body
InProse(k) ==
    {p \o b \o s : p \in Prefixes, b \in Bodies(k), s \in Suffixes}

\* a reasoning block, and runs of 1..MaxBlocks reasoning blocks
Block(reasoning) == think_start_tag \o reasoning \o think_end_tag

RECURSIVE BlockRuns(_)
BlockRuns(n) ==
    IF n = 0 THEN {<<>>}
    ELSE {Block(r) \o t : r \in {Hmm, HmmBraced}, t \in BlockRuns(n - 1)}

\* reasoning blocks followed by a clean JSON object
Reasoned(k) ==
    {t \o sep \o j : t \in UNION {BlockRuns(n) : n \in 1..MaxBlocks},
                     sep \in {<<>>, Newline},
                     j \in {Obj(k, Q(Male)), Obj(ErrorKey, Q(Timeout))}}

\* an inner text wrapped in a json fence
Fence(inner) == FenceOpen \o Newline \o inner \o Newline \o FenceClose

\* the inner texts tried fenced and unfenced
InnerTexts(k) ==
    Answers(k) \cup Scalars
    \cup {Obj(ErrorKey, Q(RateLimitExceeded)), Abc, <<>>, <<" ", "5", " ">>,
          Block(Hmm) \o Five, Block(Hmm) \o Obj(k, Q(Male)),
          Fence(Obj(k, Q(Male))), <<"{", "a", "b", "c", "}">>}

Fenced(k) == InnerTexts(k) \cup {Fence(j) : j \in InnerTexts(k)}

\* everything the chain may do for attribute key k
OneOutcomes(k) ==
    {Returns(t) : t \in InProse(k) \cup Reasoned(k) \cup Fenced(k)}
    \cup {ReturnsNone} \cup {Raises(e) : e \in ErrorTexts}

\* one attribute, its chain outcome chosen, before run_extraction
OneInit ==
    /\ BatchIdle
    /\ attr \in OneKeys
    /\ chain_out \in OneOutcomes(attr)
    /\ stage = "call"
    /\ returned = ExtractionNotRun
    /\ shown = NoCard
    /\ ChainIdle
    /\ SessionsIdle
    /\ AuxIdle

\* the try block and except clause of the loop, for this attribute
OneAfterCall(r, h) ==
    /\ returned' =
          IF ~r.raised THEN r.text
          ELSE IF ExceptException(r.exc) /\ ~h.propagates
          THEN h.json_result_str ELSE returned
    /\ stage' = IF r.raised /\ ~(ExceptException(r.exc) /\ ~h.propagates)
                THEN "aborted" ELSE "card"

OneTryCall(r) == OneAfterCall(r, ExceptionDuringCall(r.text))

OneCall ==
    /\ stage = "call"
    /\ OneTryCall(RunExtraction(chain_out, attr))
    /\ UNCHANGED <<chain_out, attr, shown>>
    /\ UNCHANGED <<batchVars, chainVars, sessionVars, auxVars>>

OneShow(c) ==
    /\ shown' = c
    /\ stage' = IF c.escaped THEN "aborted" ELSE "shown"

\* the card of the attribute
OneCard ==
    /\ stage = "card"
    /\ OneShow(Card(returned, attr))
    /\ UNCHANGED <<chain_out, attr, returned>>
    /\ UNCHANGED <<batchVars, chainVars, sessionVars, auxVars>>

OneNext == OneCall \/ OneCard

OneSpec == OneInit /\ [][OneNext]_vars

(***************************************************************************)
(* The extraction chain of create_pdf_extraction_chain for one attribute:  *)
(* the retriever is invoked, format_docs makes the context block, the      *)
(* prompt goes to the LLM, and the answer goes the way of OneSpec.         *)
(***************************************************************************)
Document(page_content, source, page, start_index) ==
    [page_content |-> page_content, source |-> source, page |-> page,
     start_index |-> start_index]

\* the chunks the index holds
Chunks ==
    {Document(<<"b", "o", "d", "y">>, <<<<"a", ".", "p", "d", "f">>>>, <<0>>, <<0>>),
     Document(<<"x", "-", "-", "-", "y">>, Absent, Absent, Absent),
     Document(<<>>, <<<<"a", ".", "p", "d", "f">>>>, <<12>>, Absent)}

\* what retriever.invoke may return: up to MaxChunks chunks in any order
RECURSIVE ChunkSeqs(_)
ChunkSeqs(n) ==
    IF n = 0 THEN {<<>>}
    ELSE ChunkSeqs(n - 1)
         \cup {Append(q, c) : q \in {r \in ChunkSeqs(n - 1) : Len(r) = n - 1},
                              c \in Chunks}

\* what the LLM may answer for attribute key k
LlmOutcomes(k) ==
    {Returns(Obj(k, Q(NOT_FOUND))), Returns(Obj(k, Q(Male))),
     Raises(RateLimitExceeded)}

ChainInit ==
    /\ BatchIdle
    /\ attr \in OneKeys
    /\ chain_out = NoOutcome
    /\ stage = "retrieve"
    /\ returned = ExtractionNotRun
    /\ shown = NoCard
    /\ ChainIdle
    /\ SessionsIdle
    /\ AuxIdle

\* context = ... retriever.invoke(...): the chunks, or an exception that
\* ends the chain before the LLM is reached
Retrieve ==
    /\ stage = "retrieve"
    /\ \/ \E d \in ChunkSeqs(MaxChunks) :
             docs' = d /\ stage' = "format" /\ chain_out' = chain_out
       \/ docs' = docs /\ stage' = "call" /\ chain_out' = Raises(Timeout)
    /\ UNCHANGED <<attr, returned, shown, context, llm_calls>>
    /\ UNCHANGED <<batchVars, sessionVars, auxVars>>

\* ... | format_docs
FormatContext ==
    /\ stage = "format"
    /\ context' = FormatDocs(docs)
    /\ stage' = "llm"
    /\ UNCHANGED <<chain_out, attr, returned, shown, docs, llm_calls>>
    /\ UNCHANGED <<batchVars, sessionVars, auxVars>>

\* | prompt | llm | StrOutputParser(): the LLM is called with the prompt
\* built from the context block and the attribute key
InvokeLlm ==
    /\ stage = "llm"
    /\ llm_calls' = Append(llm_calls, [context |-> context, attribute_key |-> attr])
    /\ \E o \in LlmOutcomes(attr) : chain_out' = o
    /\ stage' = "call"
    /\ UNCHANGED <<attr, returned, shown, docs, context>>
    /\ UNCHANGED <<batchVars, sessionVars, auxVars>>

ChainNext == Retrieve \/ FormatContext \/ InvokeLlm \/ OneCall \/ OneCard

ChainSpec == ChainInit /\ [][ChainNext]_vars


(***************************************************************************)
(* The prompts of the two extraction chains.  PromptTemplate.from_template *)
(* reads the template as a Python format string: runs of literal text (in  *)
(* which a doubled brace stands for one brace) and replacement fields; the *)
(* prompt is the text with every field replaced by str() of its input,     *)
(* which is not read as a template again.  The templates are those of the  *)
(* source, character by character, as string.Formatter().parse splits     *)
(* them.                                                                   *)
(***************************************************************************)
Text(chars) == [kind |-> "text", chars |-> chars]
Field(name) == [kind |-> "field", name |-> name]

\* template of create_pdf_extraction_chain
PdfTemplate ==
    <<
     Text(
       <<"\n", "Y", "o", "u", " ", "a", "r", "e", " ", "a", "n", " ", "e",
         "x", "p", "e", "r", "t", " ", "d", "a", "t", "a", " ", "e", "x",
         "t", "r", "a", "c", "t", "o", "r", ".", " ", "Y", "o", "u", "r",
         " ", "g", "o", "a", "l", " ", "i", "s", " ", "t", "o", " ", "e",
         "x", "t", "r", "a", "c", "t", " ", "a", " ", "s", "p", "e", "c",
         "i", "f", "i", "c", " ", "p", "i", "e", "c", "e", " ", "o", "f",
         " ", "i", "n", "f", "o", "r", "m", "a", "t", "i", "o", "n", " ",
         "b", "a", "s", "e", "d", " ", "o", "n", " ", "t", "h", "e", " ",
         "E", "x", "t", "r", "a", "c", "t", "i", "o", "n", " ", "I", "n",
         "s", "t", "r", "u", "c", "t", "i", "o", "n", "s", " ", "p", "r",
         "o", "v", "i", "d", "e", "d", " ", "b", "e", "l", "o", "w", ",",
         " ", "u", "s", "i", "n", "g", " ", "O", "N", "L", "Y", " ", "t",
         "h", "e", " ", "D", "o", "c", "u", "m", "e", "n", "t", " ", "C",
         "o", "n", "t", "e", "x", "t", " ", "f", "r", "o", "m", " ", "P",
         "D", "F", "s", ".", "\n", "\n", "P", "a", "r", "t", " ", "N", "u",
         "m", "b", "e", "r", " ", "I", "n", "f", "o", "r", "m", "a", "t",
         "i", "o", "n", " ", "(", "i", "f", " ", "p", "r", "o", "v", "i",
         "d", "e", "d", " ", "b", "y", " ", "u", "s", "e", "r", ")", ":", "\n">>),
     Field(<<"p", "a", "r", "t", "_", "n", "u", "m", "b", "e", "r">>),
     Text(
       <<"\n", "\n", "-", "-", "-", " ", "D", "o", "c", "u", "m", "e", "n",
         "t", " ", "C", "o", "n", "t", "e", "x", "t", " ", "(", "f", "r",
         "o", "m", " ", "P", "D", "F", "s", ")", " ", "-", "-", "-", "\n">>),
     Field(<<"c", "o", "n", "t", "e", "x", "t">>),
     Text(
       <<"\n", "-", "-", "-", " ", "E", "n", "d", " ", "D", "o", "c", "u",
         "m", "e", "n", "t", " ", "C", "o", "n", "t", "e", "x", "t", " ",
         "-", "-", "-", "\n", "\n", "E", "x", "t", "r", "a", "c", "t", "i",
         "o", "n", " ", "I", "n", "s", "t", "r", "u", "c", "t", "i", "o",
         "n", "s", ":", "\n">>),
     Field(<<"e", "x", "t", "r", "a", "c", "t", "i", "o", "n", "_", "i", "n", "s", "t",
  "r", "u", "c", "t", "i", "o", "n", "s">>),
     Text(
       <<"\n", "\n", "-", "-", "-", "\n", "I", "M", "P", "O", "R", "T", "A",
         "N", "T", ":", " ", "R", "e", "s", "p", "o", "n", "d", " ", "w",
         "i", "t", "h", " ", "O", "N", "L", "Y", " ", "a", " ", "s", "i",
         "n", "g", "l", "e", ",", " ", "v", "a", "l", "i", "d", " ", "J",
         "S", "O", "N", " ", "o", "b", "j", "e", "c", "t", " ", "c", "o",
         "n", "t", "a", "i", "n", "i", "n", "g", " ", "e", "x", "a", "c",
         "t", "l", "y", " ", "o", "n", "e", " ", "k", "e", "y", "-", "v",
         "a", "l", "u", "e", " ", "p", "a", "i", "r", ".", "\n", "-", " ",
         "T", "h", "e", " ", "k", "e", "y", " ", "f", "o", "r", " ", "t",
         "h", "e", " ", "J", "S", "O", "N", " ", "o", "b", "j", "e", "c",
         "t", " ", "M", "U", "S", "T", " ", "b", "e", " ", "t", "h", "e",
         " ", "s", "t", "r", "i", "n", "g", ":", " ", "\"">>),
     Field(<<"a", "t", "t", "r", "i", "b", "u", "t", "e", "_", "k", "e", "y">>),
     Text(
       <<"\"", "\n", "-", " ", "T", "h", "e", " ", "v", "a", "l", "u", "e",
         " ", "M", "U", "S", "T", " ", "b", "e", " ", "t", "h", "e", " ",
         "e", "x", "t", "r", "a", "c", "t", "e", "d", " ", "r", "e", "s",
         "u", "l", "t", " ", "d", "e", "t", "e", "r", "m", "i", "n", "e",
         "d", " ", "b", "y", " ", "f", "o", "l", "l", "o", "w", "i", "n",
         "g", " ", "t", "h", "e", " ", "E", "x", "t", "r", "a", "c", "t",
         "i", "o", "n", " ", "I", "n", "s", "t", "r", "u", "c", "t", "i",
         "o", "n", "s", " ", "u", "s", "i", "n", "g", " ", "t", "h", "e",
         " ", "D", "o", "c", "u", "m", "e", "n", "t", " ", "C", "o", "n",
         "t", "e", "x", "t", " ", "p", "r", "o", "v", "i", "d", "e", "d",
         " ", "a", "b", "o", "v", "e", ".", "\n", "-", " ", "P", "r", "o",
         "v", "i", "d", "e", " ", "t", "h", "e", " ", "v", "a", "l", "u",
         "e", " ", "a", "s", " ", "a", " ", "J", "S", "O", "N", " ", "s",
         "t", "r", "i", "n", "g", ".", " ", "E", "x", "a", "m", "p", "l",
         "e", "s", ":", " ", "\"", "G", "F", ",", " ", "T", "\"", ",", " ",
         "\"", "n", "o", "n", "e", "\"", ",", " ", "\"", "N", "O", "T", " ",
         "F", "O", "U", "N", "D", "\"", ",", " ", "\"", "F", "e", "m", "a",
         "l", "e", "\"", ",", " ", "\"", "7", ".", "2", "\"", ",", " ", "\"",
         "9", "9", "9", "\"", ".", "\n", "-", " ", "D", "o", " ", "N", "O",
         "T", " ", "i", "n", "c", "l", "u", "d", "e", " ", "a", "n", "y",
         " ", "e", "x", "p", "l", "a", "n", "a", "t", "i", "o", "n", "s",
         ",", " ", "r", "e", "a", "s", "o", "n", "i", "n", "g", ",", " ",
         "o", "r", " ", "a", "n", "y", " ", "t", "e", "x", "t", " ", "o",
         "u", "t", "s", "i", "d", "e", " ", "o", "f", " ", "t", "h", "e",
         " ", "s", "i", "n", "g", "l", "e", " ", "J", "S", "O", "N", " ",
         "o", "b", "j", "e", "c", "t", " ", "i", "n", " ", "y", "o", "u",
         "r", " ", "r", "e", "s", "p", "o", "n", "s", "e", ".", "\n", "\n",
         "E", "x", "a", "m", "p", "l", "e", " ", "O", "u", "t", "p", "u",
         "t", " ", "F", "o", "r", "m", "a", "t", ":", "\n", "{">>),
     Text(
       <<"\"">>),
     Field(<<"a", "t", "t", "r", "i", "b", "u", "t", "e", "_", "k", "e", "y">>),
     Text(
       <<"\"", ":", " ", "\"", "e", "x", "t", "r", "a", "c", "t", "e", "d",
         "_", "v", "a", "l", "u", "e", "_", "f", "r", "o", "m", "_", "p",
         "d", "f", "\"", "}">>),
     Text(
       <<"\n", "\n", "O", "u", "t", "p", "u", "t", ":", "\n">>)
    >>

\* template of create_web_extraction_chain
WebTemplate ==
    <<
     Text(
       <<"\n", "Y", "o", "u", " ", "a", "r", "e", " ", "a", "n", " ", "e",
         "x", "p", "e", "r", "t", " ", "d", "a", "t", "a", " ", "e", "x",
         "t", "r", "a", "c", "t", "o", "r", ".", " ", "Y", "o", "u", "r",
         " ", "g", "o", "a", "l", " ", "i", "s", " ", "t", "o", " ", "a",
         "n", "s", "w", "e", "r", " ", "a", " ", "s", "p", "e", "c", "i",
         "f", "i", "c", " ", "p", "i", "e", "c", "e", " ", "o", "f", " ",
         "i", "n", "f", "o", "r", "m", "a", "t", "i", "o", "n", " ", "b",
         "y", " ", "a", "p", "p", "l", "y", "i", "n", "g", " ", "t", "h",
         "e", " ", "l", "o", "g", "i", "c", " ", "d", "e", "s", "c", "r",
         "i", "b", "e", "d", " ", "i", "n", " ", "t", "h", "e", " ", "'",
         "E", "x", "t", "r", "a", "c", "t", "i", "o", "n", " ", "I", "n",
         "s", "t", "r", "u", "c", "t", "i", "o", "n", "s", "'", " ", "t",
         "o", " ", "t", "h", "e", " ", "'", "C", "l", "e", "a", "n", "e",
         "d", " ", "S", "c", "r", "a", "p", "e", "d", " ", "W", "e", "b",
         "s", "i", "t", "e", " ", "D", "a", "t", "a", "'", " ", "p", "r",
         "o", "v", "i", "d", "e", "d", " ", "b", "e", "l", "o", "w", ".",
         " ", "U", "s", "e", " ", "O", "N", "L", "Y", " ", "t", "h", "e",
         " ", "p", "r", "o", "v", "i", "d", "e", "d", " ", "w", "e", "b",
         "s", "i", "t", "e", " ", "d", "a", "t", "a", " ", "a", "s", " ",
         "y", "o", "u", "r", " ", "c", "o", "n", "t", "e", "x", "t", ".",
         "\n", "\n", "-", "-", "-", " ", "C", "l", "e", "a", "n", "e", "d",
         " ", "S", "c", "r", "a", "p", "e", "d", " ", "W", "e", "b", "s",
         "i", "t", "e", " ", "D", "a", "t", "a", " ", "-", "-", "-", "\n">>),
     Field(<<"c", "l", "e", "a", "n", "e", "d", "_", "w", "e", "b", "_", "d", "a", "t",
  "a">>),
     Text(
       <<"\n", "-", "-", "-", " ", "E", "n", "d", " ", "C", "l", "e", "a",
         "n", "e", "d", " ", "S", "c", "r", "a", "p", "e", "d", " ", "W",
         "e", "b", "s", "i", "t", "e", " ", "D", "a", "t", "a", " ", "-",
         "-", "-", "\n", "\n", "E", "x", "t", "r", "a", "c", "t", "i", "o",
         "n", " ", "I", "n", "s", "t", "r", "u", "c", "t", "i", "o", "n",
         "s", ":", "\n">>),
     Field(<<"e", "x", "t", "r", "a", "c", "t", "i", "o", "n", "_", "i", "n", "s", "t",
  "r", "u", "c", "t", "i", "o", "n", "s">>),
     Text(
       <<"\n", "\n", "-", "-", "-", "\n", "I", "M", "P", "O", "R", "T", "A",
         "N", "T", ":", " ", "F", "o", "l", "l", "o", "w", " ", "t", "h",
         "e", " ", "E", "x", "t", "r", "a", "c", "t", "i", "o", "n", " ",
         "I", "n", "s", "t", "r", "u", "c", "t", "i", "o", "n", "s", " ",
         "c", "a", "r", "e", "f", "u", "l", "l", "y", " ", "u", "s", "i",
         "n", "g", " ", "t", "h", "e", " ", "w", "e", "b", "s", "i", "t",
         "e", " ", "d", "a", "t", "a", ".", "\n", "R", "e", "s", "p", "o",
         "n", "d", " ", "w", "i", "t", "h", " ", "O", "N", "L", "Y", " ",
         "a", " ", "s", "i", "n", "g", "l", "e", ",", " ", "v", "a", "l",
         "i", "d", " ", "J", "S", "O", "N", " ", "o", "b", "j", "e", "c",
         "t", " ", "c", "o", "n", "t", "a", "i", "n", "i", "n", "g", " ",
         "e", "x", "a", "c", "t", "l", "y", " ", "o", "n", "e", " ", "k",
         "e", "y", "-", "v", "a", "l", "u", "e", " ", "p", "a", "i", "r",
         ".", "\n", "-", " ", "T", "h", "e", " ", "k", "e", "y", " ", "f",
         "o", "r", " ", "t", "h", "e", " ", "J", "S", "O", "N", " ", "o",
         "b", "j", "e", "c", "t", " ", "M", "U", "S", "T", " ", "b", "e",
         " ", "t", "h", "e", " ", "s", "t", "r", "i", "n", "g", ":", " ", "\"">>),
     Field(<<"a", "t", "t", "r", "i", "b", "u", "t", "e", "_", "k", "e", "y">>),
     Text(
       <<"\"", "\n", "-", " ", "T", "h", "e", " ", "v", "a", "l", "u", "e",
         " ", "M", "U", "S", "T", " ", "b", "e", " ", "t", "h", "e", " ",
         "r", "e", "s", "u", "l", "t", " ", "o", "b", "t", "a", "i", "n",
         "e", "d", " ", "b", "y", " ", "a", "p", "p", "l", "y", "i", "n",
         "g", " ", "t", "h", "e", " ", "E", "x", "t", "r", "a", "c", "t",
         "i", "o", "n", " ", "I", "n", "s", "t", "r", "u", "c", "t", "i",
         "o", "n", "s", " ", "t", "o", " ", "t", "h", "e", " ", "C", "l",
         "e", "a", "n", "e", "d", " ", "S", "c", "r", "a", "p", "e", "d",
         " ", "W", "e", "b", "s", "i", "t", "e", " ", "D", "a", "t", "a",
         ".", "\n", "-", " ", "P", "r", "o", "v", "i", "d", "e", " ", "t",
         "h", "e", " ", "v", "a", "l", "u", "e", " ", "a", "s", " ", "a",
         " ", "J", "S", "O", "N", " ", "s", "t", "r", "i", "n", "g", ".",
         "\n", "-", " ", "I", "f", " ", "t", "h", "e", " ", "i", "n", "f",
         "o", "r", "m", "a", "t", "i", "o", "n", " ", "c", "a", "n", "n",
         "o", "t", " ", "b", "e", " ", "d", "e", "t", "e", "r", "m", "i",
         "n", "e", "d", " ", "f", "r", "o", "m", " ", "t", "h", "e", " ",
         "C", "l", "e", "a", "n", "e", "d", " ", "S", "c", "r", "a", "p",
         "e", "d", " ", "W", "e", "b", "s", "i", "t", "e", " ", "D", "a",
         "t", "a", " ", "b", "a", "s", "e", "d", " ", "o", "n", " ", "t",
         "h", "e", " ", "i", "n", "s", "t", "r", "u", "c", "t", "i", "o",
         "n", "s", ",", " ", "t", "h", "e", " ", "v", "a", "l", "u", "e",
         " ", "M", "U", "S", "T", " ", "b", "e", " ", "\"", "N", "O", "T",
         " ", "F", "O", "U", "N", "D", "\"", ".", "\n", "-", " ", "D", "o",
         " ", "N", "O", "T", " ", "i", "n", "c", "l", "u", "d", "e", " ",
         "a", "n", "y", " ", "e", "x", "p", "l", "a", "n", "a", "t", "i",
         "o", "n", "s", " ", "o", "r", " ", "r", "e", "a", "s", "o", "n",
         "i", "n", "g", " ", "o", "u", "t", "s", "i", "d", "e", " ", "t",
         "h", "e", " ", "J", "S", "O", "N", " ", "o", "b", "j", "e", "c",
         "t", ".", "\n", "\n", "E", "x", "a", "m", "p", "l", "e", " ", "O",
         "u", "t", "p", "u", "t", " ", "F", "o", "r", "m", "a", "t", ":",
         "\n", "{">>),
     Text(
       <<"\"">>),
     Field(<<"a", "t", "t", "r", "i", "b", "u", "t", "e", "_", "k", "e", "y">>),
     Text(
       <<"\"", ":", " ", "\"", "e", "x", "t", "r", "a", "c", "t", "e", "d",
         "_", "v", "a", "l", "u", "e", "_", "b", "a", "s", "e", "d", "_",
         "o", "n", "_", "i", "n", "s", "t", "r", "u", "c", "t", "i", "o",
         "n", "s", "\"", "}">>),
     Text(
       <<"\n", "\n", "O", "u", "t", "p", "u", "t", ":", "\n">>)
    >>

\* the names of the replacement fields
ContextField == <<"c", "o", "n", "t", "e", "x", "t">>
CleanedWebDataField ==
    <<"c", "l", "e", "a", "n", "e", "d", "_", "w", "e", "b", "_", "d", "a", "t", "a">>
ExtractionInstructionsField ==
    <<"e", "x", "t", "r", "a", "c", "t", "i", "o", "n", "_", "i", "n", "s", "t", "r", "u", "c", "t", "i", "o", "n", "s">>
AttributeKeyField == <<"a", "t", "t", "r", "i", "b", "u", "t", "e", "_", "k", "e", "y">>
PartNumberField == <<"p", "a", "r", "t", "_", "n", "u", "m", "b", "e", "r">>
NotProvided == <<"N", "o", "t", " ", "P", "r", "o", "v", "i", "d", "e", "d">>

\* a template whose fields are left as they are written
FormatTokenUnfilled(tok, values) ==
    IF tok.kind = "text" THEN tok.chars ELSE <<"{">> \o tok.name \o <<"}">>

\* one piece of the formatted prompt
FormatToken(tok, values) ==
    IF tok.kind = "text" THEN tok.chars ELSE values[tok.name]

\* prompt.format(**values): the pieces of the first n tokens, in order
RECURSIVE FormatUpTo(_, _, _)
FormatUpTo(template, values, n) ==
    IF n = 0 THEN <<>>
    ELSE FormatUpTo(template, values, n - 1) \o FormatToken(template[n], values)

Format(template, values) == FormatUpTo(template, values, Len(template))

\* the .assign(...) step of pdf_chain: the inputs of the prompt
PdfPromptValues(x) ==
    [f \in {ContextField, ExtractionInstructionsField, AttributeKeyField, PartNumberField} |->
        CASE f = ContextField -> FormatDocs(x.retrieved)
          [] f = ExtractionInstructionsField -> x.extraction_instructions
          [] f = AttributeKeyField -> x.attribute_key
          [] OTHER -> IF x.part_number = Absent THEN NotProvided ELSE x.part_number[1]]

\* the .assign(...) step of web_chain
WebPromptValues(x) ==
    [f \in {CleanedWebDataField, ExtractionInstructionsField, AttributeKeyField} |->
        CASE f = CleanedWebDataField -> x.cleaned_web_data
          [] f = ExtractionInstructionsField -> x.extraction_instructions
          [] OTHER -> x.attribute_key]

\* the keys of prompts_to_run the prompts are composed for
AttributeKeys == {MaterialFilling, MaterialName, PullToSeat, Gender, NumberOfCavities}

\* instructions: plain, with quotes, and with text that looks like a field
InstructionTexts ==
    {<<"F", "i", "n", "d", " ", "t", "h", "e", " ", "c", "o", "l", "o", "u", "r", ".">>,
     <<"A", "n", "s", "w", "e", "r", " ", "\"", "n", "o", "n", "e", "\"", " ", "i", "f", " ", "a", "b", "s", "e", "n", "t", ".">>,
     <<"U", "s", "e", " ", "{", "a", "t", "t", "r", "i", "b", "u", "t", "e", "_", "k", "e", "y", "}", " ", "a", "n", "d", " ", "{", "{", "x", "}", "}", ".">>}

\* scraped text: none, plain, with braces
WebTexts == {<<>>, <<"C", "o", "l", "o", "u", "r", ":", " ", "r", "e", "d">>, <<"{", "\"", "c", "o", "l", "o", "u", "r", "\"", ":", " ", "\"", "r", "e", "d", "\"", "}">>}

PartNumbers == {Absent, <<<<"P", "-", "1">>>>}

PdfChainInputs ==
    [chain : {"pdf"}, attribute_key : AttributeKeys,
     extraction_instructions : InstructionTexts, part_number : PartNumbers,
     retrieved : ChunkSeqs(1)]

WebChainInputs ==
    [chain : {"web"}, attribute_key : AttributeKeys,
     extraction_instructions : InstructionTexts, cleaned_web_data : WebTexts]

PromptInit ==
    /\ BatchIdle /\ OneIdle /\ ChainIdle /\ SessionsIdle
    /\ PromptIdle /\ IngestIdle /\ ClientIdle /\ PartsIdle

\* ... | prompt of pdf_chain
InvokePdfPrompt ==
    /\ \E x \in PdfChainInputs :
          /\ prompt_input' = x
          /\ prompt' = Format(PdfTemplate, PdfPromptValues(x))
    /\ UNCHANGED <<batchVars, oneVars, chainVars, sessionVars, ingestVars>>
    /\ UNCHANGED <<clientVars, partsVars>>

\* ... | prompt of web_chain
InvokeWebPrompt ==
    /\ \E x \in WebChainInputs :
          /\ prompt_input' = x
          /\ prompt' = Format(WebTemplate, WebPromptValues(x))
    /\ UNCHANGED <<batchVars, oneVars, chainVars, sessionVars, ingestVars>>
    /\ UNCHANGED <<clientVars, partsVars>>

PromptNext == InvokePdfPrompt \/ InvokeWebPrompt

PromptSpec == PromptInit /\ [][PromptNext]_vars

(***************************************************************************)
(* pdf_processor.py: process_uploaded_pdfs.  The uploaded files are saved  *)
(* under their names in the temp directory, one task per saved path runs   *)
(* process_single_pdf in a ThreadPoolExecutor of min(n, 4) workers, the    *)
(* results are gathered, and the finally clause removes the saved paths.   *)
(* temp_dir[name] is 0 when there is no file of that name and otherwise    *)
(* the position, in uploaded_files, of the upload whose bytes the file     *)
(* holds; opened[i] is what task i found when it opened its path.          *)
(***************************************************************************)
Min(a, b) == IF a < b THEN a ELSE b

\* a pool as wide as the number of files
PoolWorkersUnbounded(n) == n

\* ThreadPoolExecutor(max_workers=min(len(saved_file_paths), 4))
PoolWorkers(n) == Min(n, 4)

\* a clean-up that is skipped when an exception is on its way out
CleansUpOnSuccess(exception) == ~exception

\* finally: the clean-up runs whether or not an exception is propagating
CleansUp(exception) == TRUE

FilesRunning == {i \in 1..Len(tasks) : tasks[i] = "running"}
FilesQueued == {i \in 1..Len(tasks) : tasks[i] = "queued"}

RECURSIVE UploadLists(_)
UploadLists(n) ==
    IF n = 0 THEN {<<>>}
    ELSE UploadLists(n - 1)
         \cup {Append(q, name) : q \in {r \in UploadLists(n - 1) : Len(r) = n - 1},
                                 name \in FileNames}

IngestInit ==
    /\ BatchIdle /\ OneIdle /\ ChainIdle /\ SessionsIdle /\ PromptIdle
    /\ ClientIdle /\ PartsIdle
    /\ uploaded_files \in UploadLists(MaxFiles) \ {<<>>}
    /\ ingest_pc = "client"
    /\ temp_dir = EmptyDir
    /\ saved_file_paths = <<>> /\ tasks = <<>> /\ opened = <<>>
    /\ raising = FALSE

IngestFrame ==
    UNCHANGED <<batchVars, oneVars, chainVars, sessionVars, promptVars, clientVars, partsVars>>

\* the step after the try block was left with or without an exception
AfterTry(exception) ==
    /\ raising' = exception
    /\ ingest_pc' = IF CleansUp(exception) THEN "cleanup"
                    ELSE IF exception THEN "raised" ELSE "done"

\* Initialize Mistral client: on an exception return [] before any file is
\* saved
InitClient ==
    /\ ingest_pc = "client"
    /\ ingest_pc' \in {"save", "done"}
    /\ UNCHANGED <<uploaded_files, temp_dir, saved_file_paths, tasks, opened, raising>>
    /\ IngestFrame

\* Save all files first: the path is recorded, then the file is written;
\* open or write may raise, with nothing or a part of the file on disk
SaveFile ==
    /\ ingest_pc = "save"
    /\ Len(saved_file_paths) < Len(uploaded_files)
    /\ LET k == Len(saved_file_paths) + 1
           name == uploaded_files[k]
       IN  /\ saved_file_paths' = Append(saved_file_paths, name)
           /\ \/ /\ temp_dir' = [temp_dir EXCEPT ![name] = k]
                 /\ UNCHANGED <<ingest_pc, raising>>
              \/ /\ temp_dir' \in {temp_dir, [temp_dir EXCEPT ![name] = k]}
                 /\ AfterTry(TRUE)
    /\ UNCHANGED <<uploaded_files, tasks, opened>>
    /\ IngestFrame

\* loop.run_in_executor for every saved path: the tasks are queued
SubmitTasks ==
    /\ ingest_pc = "save"
    /\ Len(saved_file_paths) = Len(uploaded_files)
    /\ tasks' = [i \in 1..Len(saved_file_paths) |-> "queued"]
    /\ opened' = [i \in 1..Len(saved_file_paths) |-> 0]
    /\ ingest_pc' = "pool"
    /\ UNCHANGED <<uploaded_files, temp_dir, saved_file_paths, raising>>
    /\ IngestFrame

\* a free worker takes the first queued task: process_single_pdf opens the
\* file at its path
WorkerTakes ==
    /\ ingest_pc = "pool"
    /\ FilesQueued # {}
    /\ Cardinality(FilesRunning) < PoolWorkers(Len(saved_file_paths))
    /\ LET i == Least(FilesQueued)
       IN  /\ tasks' = [tasks EXCEPT ![i] = "running"]
           /\ opened' = [opened EXCEPT ![i] = temp_dir[saved_file_paths[i]]]
    /\ UNCHANGED <<uploaded_files, ingest_pc, temp_dir, saved_file_paths, raising>>
    /\ IngestFrame

\* process_single_pdf returns its documents (it catches its exceptions)
WorkerFinishes ==
    /\ ingest_pc = "pool"
    /\ \E i \in FilesRunning : tasks' = [tasks EXCEPT ![i] = "done"]
    /\ UNCHANGED <<uploaded_files, ingest_pc, temp_dir, saved_file_paths, opened, raising>>
    /\ IngestFrame

\* results = await asyncio.gather(*tasks) and the end of the with block,
\* which waits for every task; the await may be cancelled
Gather ==
    /\ ingest_pc = "pool"
    /\ \A i \in 1..Len(tasks) : tasks[i] = "done"
    /\ \E cancelled \in BOOLEAN : AfterTry(cancelled)
    /\ UNCHANGED <<uploaded_files, temp_dir, saved_file_paths, tasks, opened>>
    /\ IngestFrame

\* finally: os.remove(path) for the next saved path; the OSError of a path
\* that is no longer there is logged
RemoveFile ==
    /\ ingest_pc = "cleanup"
    /\ saved_file_paths # <<>>
    /\ temp_dir' = [temp_dir EXCEPT ![Head(saved_file_paths)] = 0]
    /\ saved_file_paths' = Tail(saved_file_paths)
    /\ UNCHANGED <<uploaded_files, ingest_pc, tasks, opened, raising>>
    /\ IngestFrame

\* return all_docs, or the exception propagates
Finish ==
    /\ ingest_pc = "cleanup"
    /\ saved_file_paths = <<>>
    /\ ingest_pc' = IF raising THEN "raised" ELSE "done"
    /\ UNCHANGED <<uploaded_files, temp_dir, saved_file_paths, tasks, opened, raising>>
    /\ IngestFrame

IngestNext ==
    \/ InitClient \/ SaveFile \/ SubmitTasks \/ WorkerTakes \/ WorkerFinishes
    \/ Gather \/ RemoveFile \/ Finish

IngestSpec == IngestInit /\ [][IngestNext]_vars

(***************************************************************************)
(* vector_store.py: get_chroma_client, called from the script threads of   *)
(* the sessions.  The function tests the module-level _chroma_client,      *)
(* constructs a ChromaClient when it is None, assigns it and returns the   *)
(* module-level value; nothing orders the steps of one caller with those   *)
(* of another.  Clients are numbered in the order of their construction;   *)
(* 0 is None.                                                              *)
(***************************************************************************)
ClientInit ==
    /\ BatchIdle /\ OneIdle /\ ChainIdle /\ SessionsIdle /\ PromptIdle
    /\ IngestIdle /\ PartsIdle
    /\ ClientIdle

ClientFrame ==
    UNCHANGED <<batchVars, oneVars, chainVars, sessionVars, promptVars, ingestVars, partsVars>>

CallerStep(c, next) == callers' = [callers EXCEPT ![c] = next]

\* if _chroma_client is None:
ClientMissing(client) == client = 0

\* a caller enters get_chroma_client
CallGetClient(c) ==
    /\ callers[c].at = "idle"
    /\ CallerStep(c, [callers[c] EXCEPT !.at = "test"])
    /\ UNCHANGED <<chroma_client, constructed>>
    /\ ClientFrame

\* if _chroma_client is None:
TestClient(c) ==
    /\ callers[c].at = "test"
    /\ CallerStep(c, [callers[c] EXCEPT
          !.at = IF ClientMissing(chroma_client) THEN "construct" ELSE "return"])
    /\ UNCHANGED <<chroma_client, constructed>>
    /\ ClientFrame

\* ChromaClient(config.CHROMA_SETTINGS)
ConstructClient(c) ==
    /\ callers[c].at = "construct"
    /\ constructed' = constructed + 1
    /\ CallerStep(c, [callers[c] EXCEPT !.at = "assign", !.made = constructed + 1])
    /\ UNCHANGED chroma_client
    /\ ClientFrame

\* _chroma_client = ...
AssignClient(c) ==
    /\ callers[c].at = "assign"
    /\ chroma_client' = callers[c].made
    /\ CallerStep(c, [callers[c] EXCEPT !.at = "return"])
    /\ UNCHANGED constructed
    /\ ClientFrame

\* return _chroma_client
ReturnClient(c) ==
    /\ callers[c].at = "return"
    /\ CallerStep(c, [callers[c] EXCEPT !.at = "done", !.got = chroma_client])
    /\ UNCHANGED <<chroma_client, constructed>>
    /\ ClientFrame

ClientNext ==
    \E c \in Callers :
        \/ CallGetClient(c) \/ TestClient(c) \/ ConstructClient(c)
        \/ AssignClient(c) \/ ReturnClient(c)

ClientSpec == ClientInit /\ [][ClientNext]_vars

(***************************************************************************)
(* llm_interface.py: get_traceparts_product_data and get_traceparts_token. *)
(* token_cache is the cached token of TRACEPARTS_API_CONFIG: "None",       *)
(* "valid" (cached and not past its expiry) or "expired"; http is the list *)
(* of requests made with their outcomes.                                   *)
(***************************************************************************)
\* outcomes of POST /auth/token: a token, a 200 body without a token, a
\* refused request, an exception
AuthOutcomes == {"200", "200 no token", "403", "exception"}

\* outcomes of GET /product: data, a 200 whose body cannot be read, an
\* unauthorised request, other statuses, an exception
ProductOutcomes ==
    {"200", "200 bad body", "401", "404", "429", "500", "exception"}

TokenCaches == {"None", "valid", "expired"}

\* get_traceparts_token() with the cache as it is and, when a request is
\* made, the outcome o of that request
GetTracepartsToken(cache, o) ==
    IF cache = "valid"
    THEN [token |-> TRUE, cache |-> cache, requested |-> FALSE]
    ELSE [token |-> o = "200",
          cache |-> IF o = "200" THEN "valid"
                    ELSE IF o = "200 no token" THEN "None" ELSE cache,
          requested |-> TRUE]

\* a retry after every response that is not a 200
RetriesOnFailure(status) == status # "200" /\ status # "200 bad body"

\* elif response.status == 401:
Retries(status) == status = "401"

PartsInit ==
    /\ BatchIdle /\ OneIdle /\ ChainIdle /\ SessionsIdle /\ PromptIdle
    /\ IngestIdle /\ ClientIdle
    /\ token_cache \in TokenCaches
    /\ tp_pc = "token"
    /\ http = <<>>
    /\ tp_result = "pending"
    /\ lookups = 1

PartsFrame ==
    UNCHANGED <<batchVars, oneVars, chainVars, sessionVars, promptVars, ingestVars, clientVars>>

\* the token step at position from: with a token go on to position to,
\* without one return None
TokenStep(t, to) ==
    /\ token_cache' = t.cache
    /\ tp_pc' = IF t.token THEN to ELSE "done"
    /\ tp_result' = IF t.token THEN tp_result ELSE "None"
    /\ UNCHANGED lookups

\* token = await get_traceparts_token(); if not token: return None
FirstToken ==
    /\ tp_pc = "token"
    /\ \E o \in AuthOutcomes :
          /\ TokenStep(GetTracepartsToken(token_cache, o), "request")
          /\ http' = IF GetTracepartsToken(token_cache, o).requested
                     THEN Append(http, [url |-> "auth", outcome |-> o])
                     ELSE http
    /\ PartsFrame

\* what follows a response to GET /product: the data of a 200, None, or
\* (first request only) the refresh after a 401
AfterProduct(o, first) ==
    /\ http' = Append(http, [url |-> "product", outcome |-> o])
    /\ UNCHANGED lookups
    /\ IF o = "200"
       THEN tp_pc' = "done" /\ tp_result' = "data" /\ UNCHANGED token_cache
       ELSE IF first /\ Retries(o) /\ o \notin {"200 bad body", "exception"}
       THEN tp_pc' = "refresh" /\ tp_result' = tp_result /\ token_cache' = "None"
       ELSE tp_pc' = "done" /\ tp_result' = "None" /\ UNCHANGED token_cache

\* async with session.get(.../product) as response:
ProductRequest ==
    /\ tp_pc = "request"
    /\ \E o \in ProductOutcomes : AfterProduct(o, TRUE)
    /\ PartsFrame

\* token = await get_traceparts_token() after the 401
RefreshToken ==
    /\ tp_pc = "refresh"
    /\ \E o \in AuthOutcomes :
          /\ TokenStep(GetTracepartsToken(token_cache, o), "retry")
          /\ http' = IF GetTracepartsToken(token_cache, o).requested
                     THEN Append(http, [url |-> "auth", outcome |-> o])
                     ELSE http
    /\ PartsFrame

\* Retry the request with new token
RetryRequest ==
    /\ tp_pc = "retry"
    /\ \E o \in ProductOutcomes : AfterProduct(o, FALSE)
    /\ PartsFrame

\* the next call of get_traceparts_product_data (for the next part
\* number); the cached token stays, and may have passed its expiry
NextLookup ==
    /\ tp_pc = "done"
    /\ lookups < MaxLookups
    /\ lookups' = lookups + 1
    /\ tp_pc' = "token" /\ http' = <<>> /\ tp_result' = "pending"
    /\ token_cache' \in {token_cache} \cup (IF token_cache = "valid" THEN {"expired"} ELSE {})
    /\ PartsFrame

PartsNext ==
    FirstToken \/ ProductRequest \/ RefreshToken \/ RetryRequest \/ NextLookup

PartsSpec == PartsInit /\ [][PartsNext]_vars

(***************************************************************************)
(* The script of app.py as Streamlit runs it: every interaction of a       *)
(* session reruns the script from the top against that session's           *)
(* st.session_state; the sessions run in threads of one process and share  *)
(* the Chroma client and its one collection.  A result records which       *)
(* uploads the collection held when its retrieval ran (upload 0 is data    *)
(* left on disk by an earlier process).                                    *)
(***************************************************************************)

\* create_pdf_extraction_chain(retriever, llm)
CreatePdfExtractionChain(r, l) ==
    IF r = None \/ l = FALSE THEN None ELSE "chain"

\* a main area that runs the batch whatever the chain is
NoExtractionChainIgnored(extraction_chain) == FALSE

\* if not st.session_state.extraction_chain:
NoExtractionChain(extraction_chain) == extraction_chain = None

SessionInit ==
    /\ BatchIdle /\ OneIdle /\ ChainIdle /\ AuxIdle
    /\ session = [s \in Sessions |-> FreshSession]
    /\ collection \in {NoCollection, [exists |-> TRUE, docs |-> {0}, gen |-> 0]}
    /\ uploads = 0
    /\ llm \in BOOLEAN

\* session s steps to the record next; nothing else changes
SessionStep(s, next) ==
    /\ session' = [session EXCEPT ![s] = next]
    /\ UNCHANGED <<batchVars, oneVars, chainVars, auxVars, llm>>

\* an interaction reruns the script: the page is cleared; without an LLM
\* the script shows its error and stops (st.stop())
Rerun(s) ==
    /\ session[s].at = "idle"
    /\ \E button \in {b \in BOOLEAN : b => uploads < MaxUploads} :
          SessionStep(s, [session[s] EXCEPT
              !.process_button = button, !.calls = 0, !.shown = {},
              !.message = ~llm, !.at = IF llm THEN "load" ELSE "idle"])
    /\ UNCHANGED <<collection, uploads>>

\* create_extraction_chain(retriever, llm) as app.py uses it: the chain of
\* create_pdf_extraction_chain, or no chain ("Failed to create extraction
\* chain")
CreateExtractionChain(r, l) == {CreatePdfExtractionChain(r, l), None}

\* a session state that takes the retriever and leaves the file list
LoadedFilesKept(s, r, files, chain) ==
    [session[s] EXCEPT !.retriever = r, !.extraction_chain = chain]

\* the session state with the retriever r, the files and the chain
Loaded(s, r, files, chain) ==
    [session[s] EXCEPT
        !.retriever = r, !.processed_files = files,
        !.extraction_chain = chain]

\* Try loading existing vector store and create the extraction chain
LoadExisting(s) ==
    /\ session[s].at = "load"
    /\ \E found \in {f \in BOOLEAN :
                        f => (session[s].retriever = None /\ collection.exists)},
          chain \in CreateExtractionChain("retriever", llm) :
          SessionStep(s, [(IF found THEN Loaded(s, "retriever", <<"disk">>, chain)
                                   ELSE session[s]) EXCEPT
              !.at = IF session[s].process_button THEN "process" ELSE "main"])
    /\ UNCHANGED <<collection, uploads>>

\* if process_button and uploaded_files: reset state, then process the PDFs
ProcessButton(s) ==
    /\ session[s].at = "process"
    /\ session[s].process_button
    /\ uploads' = uploads + 1
    /\ \E processed_docs \in BOOLEAN :
          SessionStep(s, [session[s] EXCEPT
              !.retriever = None, !.extraction_chain = None,
              !.processed_files = <<>>, !.process_button = FALSE,
              !.started = uploads + 1,
              !.at = IF processed_docs THEN "delete" ELSE "main"])
    /\ UNCHANGED collection

\* setup_vector_store: delete the collection if it exists (best effort)
DeleteCollection(s) ==
    /\ session[s].at = "delete"
    /\ \E deleted \in {d \in BOOLEAN : d => collection.exists} :
          collection' = IF deleted
                        THEN [exists |-> FALSE, docs |-> {},
                              gen |-> collection.gen + 1]
                        ELSE collection
    /\ SessionStep(s, [session[s] EXCEPT !.at = "populate"])
    /\ UNCHANGED uploads

\* the collection after the chunks of the session's upload were added
Populated(s) ==
    [exists |-> TRUE, docs |-> collection.docs \cup {session[s].started},
     gen |-> collection.gen + 1]

\* setup_vector_store: Chroma.from_documents, persist, as_retriever; on an
\* exception None is returned, with the chunks added or not
FromDocuments(s) ==
    /\ session[s].at = "populate"
    /\ \/ /\ collection' = Populated(s)
          /\ \E chain \in CreateExtractionChain("retriever", llm) :
                SessionStep(s, [Loaded(s, "retriever", <<session[s].started>>, chain)
                                    EXCEPT !.at = "main"])
       \/ /\ collection' \in {collection, Populated(s)}
          /\ SessionStep(s, [session[s] EXCEPT !.at = "main"])
    /\ UNCHANGED uploads

\* the main area: the info message, or the batch
MainArea(s) ==
    /\ session[s].at = "main"
    /\ SessionStep(s,
          IF NoExtractionChain(session[s].extraction_chain)
          THEN [session[s] EXCEPT !.message = TRUE, !.at = "idle"]
          ELSE [session[s] EXCEPT !.batch_gen = collection.gen, !.at = "batch"])
    /\ UNCHANGED <<collection, uploads>>

\* one attribute of the batch: the retrieval reads the collection as it is
\* now, and the result is shown
BatchStep(s) ==
    /\ session[s].at = "batch"
    /\ \E failed \in {f \in BOOLEAN :
                         /\ ~collection.exists => f
                         /\ f => (~collection.exists
                                   \/ collection.gen # session[s].batch_gen)} :
          SessionStep(s, [session[s] EXCEPT
              !.calls = @ + 1,
              !.shown = @ \cup {[from |-> IF failed THEN {} ELSE collection.docs,
                                 failed |-> failed,
                                 rebuilding |->
                                    \E t \in Sessions \ {s} :
                                        session[t].at = "populate",
                                 replaced |->
                                    collection.gen # session[s].batch_gen]},
              !.batch_gen = IF session[s].calls + 1 = Len(prompts_to_run)
                            THEN 0 ELSE @,
              !.at = IF session[s].calls + 1 = Len(prompts_to_run)
                     THEN "idle" ELSE "batch"])
    /\ UNCHANGED <<collection, uploads>>

SessionNext ==
    \E s \in Sessions :
        \/ Rerun(s) \/ LoadExisting(s) \/ ProcessButton(s)
        \/ DeleteCollection(s) \/ FromDocuments(s) \/ MainArea(s)
        \/ BatchStep(s)

SessionSpec == SessionInit /\ [][SessionNext]_vars

(***************************************************************************)
(* The result status of a card, read off the branch of the result parsing  *)
(* that assigned final_answer_value.                                       *)
(***************************************************************************)
Status(c) ==
    CASE c.branch = "key" ->
            IF c.final_answer_value = NOT_FOUND THEN "NOT_FOUND" ELSE "OK"
      [] c.branch = "rate_limit" -> "RATE_LIMITED"
      [] c.branch = "error" -> "EXCEPTION"
      [] c.branch = "parsing_error" -> "EXCEPTION"
      [] c.branch = "key_missing" -> "KEY_MISSING"
      [] c.branch = "invalid_json" -> "INVALID_JSON"
      [] OTHER -> "NONE"

(***************************************************************************)
(* Properties of the batch loop (Spec).                                    *)
(***************************************************************************)

C2_RaisedCallIsException ==
    \A j \in 1..Len(results) :
        outcomes[j].kind = "raise" =>
            /\ Status(results[j]) = "EXCEPTION"
            /\ results[j].badge_color = RED
            /\ Contains(results[j].final_answer_value, outcomes[j].text)

\* C10: a call for attribute i+1 is issued only after a pacing sleep that
\* followed the call for attribute i.
C10_SleepBetweenCalls ==
    \A i \in 1..Len(calls) : i > 1 => (i - 1) \in sleeps

\* C11: attributes are called and their cards shown in the declared order
\* of prompts_to_run, one call at a time: the call for attribute i+1 is
\* issued only when the card of attribute i has been shown.
C11_DeclaredOrderOneAtATime ==
    /\ calls = [i \in 1..Len(calls) |-> i]
    /\ \A j \in 1..Len(results) :
          results[j].attribute_key =
              <<MaterialFilling, MaterialName, PullToSeat, Gender,
                NumberOfCavities>>[j]
    /\ pc = "call" => (Len(results) = Len(calls) /\ idx = Len(calls) + 1)
    /\ pc \in {"sleep", "card", "aborted"} =>
          (Len(calls) = Len(results) + 1 /\ idx = Len(calls))
    /\ pc = "done" => Len(results) = Len(calls)

\* the batch ended with the cards in declared order
C11_Witness ==
    /\ pc = "done"
    /\ Len(results) = Len(prompts_to_run)
    /\ results[1].attribute_key = MaterialFilling
    /\ results[2].attribute_key = MaterialName
    /\ outcomes[1].kind = "return"
    /\ outcomes[2].kind = "raise"

\* C15: a cancellation signal during the call for attribute i is not taken
\* by the except clause of the loop: the loop is left, no call follows for
\* a later attribute, and the cards of the attributes before i stay as
\* they were shown.
C15_CancellationLeavesLoop ==
    \A i \in 1..Len(outcomes) :
        outcomes[i].kind = "cancel" =>
            /\ pc = "aborted"
            /\ i = Len(calls)
            /\ Len(results) = i - 1
            /\ \A j \in 1..(i - 1) :
                  /\ results[j].attribute_key = prompts_to_run[j]
                  /\ outcomes[j].kind = "return" =>
                        results[j].json_string_to_parse =
                            CardThinkStrip(InvokeChainAndProcess(
                                outcomes[j].text, prompts_to_run[j]))

\* the second call was cancelled after a good first card
C15_Witness ==
    /\ pc = "aborted"
    /\ Len(calls) = 2
    /\ outcomes[2].kind = "cancel"
    /\ Len(results) = 1
    /\ results[1].final_answer_value = Male

(***************************************************************************)
(* Properties of one attribute's normalization and card (OneSpec).         *)
(***************************************************************************)

\* what C3 asks of the completion p + {attr: v} + s once its card is shown
C3_Extracted(v) ==
    /\ JsonLoads(returned).ok
    /\ JsonLoads(returned).val = JsonLoads(Obj(attr, v)).val
    /\ Status(shown) = (IF v = Q(NOT_FOUND) THEN "NOT_FOUND" ELSE "OK")
    /\ shown.final_answer_value = PyStr(JsonLoads(v).val)

\* C3: a completion made of a well-formed single-key object {attr: v} with
\* prose around it (prose with braces included) and no reasoning block or
\* fence is normalized to a text that parses to exactly {attr: v}, and its
\* card has status OK (NOT_FOUND for the sentinel) and displays v.
C3_SingleKeyObjectInProse ==
    stage = "shown" =>
        \A p \in Prefixes, v \in AnswerValues, s \in Suffixes :
            chain_out = Returns(p \o Obj(attr, v) \o s) => C3_Extracted(v)

\* C4: for a completion made of reasoning blocks followed by a clean JSON
\* object, the text the card parses and shows as raw JSON contains neither
\* the reasoning text nor a think marker.
C4_NoReasoningInParsedText ==
    (stage = "shown" /\ chain_out.kind = "return"
        /\ chain_out.text \in Reasoned(attr)) =>
        /\ ~Contains(shown.json_string_to_parse, Hmm)
        /\ ~Contains(shown.json_string_to_parse, think_start_tag)
        /\ ~Contains(shown.json_string_to_parse, think_end_tag)

\* the fenced completion of inner text j gave what j unfenced gives
C5_SameAsUnfenced(j) ==
    /\ returned = InvokeChainAndProcess(j, attr)
    /\ stage = "shown" => shown = Card(InvokeChainAndProcess(j, attr), attr)

\* C5 as stated: for every inner text J, the normalized output of J inside
\* a json fence is the normalized output of J unfenced.
C5_FencedEqualsUnfenced ==
    stage \in {"card", "shown"} =>
        \A j \in InnerTexts(attr) :
            chain_out = Returns(Fence(j)) => C5_SameAsUnfenced(j)

\* an inner text without surrounding whitespace, think marker or own fence
CleanInner(j) ==
    /\ j = Strip(j)
    /\ ~Contains(j, think_start_tag)
    /\ ~Contains(j, think_end_tag)
    /\ ~StartsWith(j, FenceOpen)

\* C5 amended: for every inner text J that has no leading or trailing
\* whitespace, contains no think marker and does not itself open a json
\* fence, the normalized output (and the card) of J inside a json fence is
\* that of J unfenced.
C5_FencedEqualsUnfencedClean ==
    stage \in {"card", "shown"} =>
        \A j \in InnerTexts(attr) :
            (CleanInner(j) /\ chain_out = Returns(Fence(j))) =>
                C5_SameAsUnfenced(j)

\* a fenced scalar came out as the bare scalar
C5_Witness ==
    /\ stage = "shown"
    /\ chain_out = Returns(Fence(Five))
    /\ returned = Five
    /\ shown.final_answer_value = KeyNotFound

\* a text with no '{' that has a '}' somewhere after it
NoBracePair(t) ==
    \/ Find(t, <<"{">>) = -1
    \/ RFind(t, <<"}">>) = -1
    \/ RFind(t, <<"}">>) < Find(t, <<"{">>)

\* the chain returned a text without a brace pair and its card is shown
C6_Case ==
    /\ stage = "shown"
    /\ chain_out.kind = "return"
    /\ chain_out.text # PyNone
    /\ NoBracePair(chain_out.text)

C7_ErrorPayload(err) ==
    IF err.t = "str" /\ Contains(Lower(err.s), rate_limit)
    THEN /\ Status(shown) = "RATE_LIMITED"
         /\ shown.final_answer_value = RateLimitHit
         /\ shown.badge_color = GREY
    ELSE /\ Status(shown) # "RATE_LIMITED"
         /\ shown.final_answer_value # RateLimitHit
         /\ shown.badge_color # GREY

C7_Payload(payload) ==
    (payload.t = "dict" /\ DictHas(payload, ErrorKey) /\ ~DictHas(payload, attr))
        => C7_ErrorPayload(DictGet(payload, ErrorKey))

\* C7: a parsed payload that is a mapping with an "error" key and without
\* the attribute key is RATE_LIMITED (Rate Limit Hit, grey) when its error
\* text contains "rate limit" in any letter case, and is not RATE_LIMITED
\* when it does not.
C7_RateLimitAnyCase ==
    (stage = "shown" /\ shown.json_string_to_parse # <<>>
        /\ JsonLoads(shown.json_string_to_parse).ok)
        => C7_Payload(JsonLoads(shown.json_string_to_parse).val)

\* an upper-case RATE LIMIT error was shown as Rate Limit Hit
C7_Witness ==
    /\ stage = "shown"
    /\ chain_out = Returns(Obj(ErrorKey, Q(RATE_LIMIT)))
    /\ shown.final_answer_value = RateLimitHit
    /\ shown.badge_color = GREY

\* the colour the presentation hint gives a status
ColourOfStatus(status) ==
    CASE status = "OK" -> GREEN
      [] status = "NOT_FOUND" -> YELLOW
      [] status = "RATE_LIMITED" -> GREY
      [] OTHER -> RED

\* C8: the badge colour is a function of the status alone: green for OK,
\* yellow for NOT_FOUND, grey for RATE_LIMITED and red for every other
\* status, whatever the display value.
C8_ColourIsFunctionOfStatus ==
    stage = "shown" => shown.badge_color = ColourOfStatus(Status(shown))

\* C9: the result parsing never lets an exception out: every string handed
\* to it ends in a card with a display value and one of the four badge
\* colours; a non-string error value gives Parsing Error, unparsable text
\* Invalid JSON, a JSON value without the keys Key not found.
C9_CardNeverRaises ==
    /\ stage # "aborted"
    /\ stage = "shown" =>
          /\ ~shown.escaped
          /\ shown.final_answer_value \in Seq(STRING)
          /\ shown.badge_color \in {RED, GREEN, YELLOW, GREY}
          /\ Status(shown) # "NONE"
          /\ shown.parse_error =>
                shown.final_answer_value \in {InvalidJSON, ParsingError}

\* an error value that is not a string ended as Parsing Error
C9_Witness ==
    /\ stage = "shown"
    /\ chain_out = Returns(Obj(ErrorKey, Five))
    /\ shown.branch = "parsing_error"
    /\ shown.final_answer_value = ParsingError
    /\ shown.badge_color = RED

\* the display texts C16 and C17 name
ErrorDuringExtraction ==
    <<"E", "r", "r", "o", "r", " ", "d", "u", "r", "i", "n", "g", " ", "e", "x",
      "t", "r", "a", "c", "t", "i", "o", "n", ".">>
KeyNotFoundInJSON ==
    <<"K", "e", "y", " ", "n", "o", "t", " ", "f", "o", "u", "n", "d", " ", "i",
      "n", " ", "J", "S", "O", "N">>

\* C16: when the chain returns None or the empty string, the card has the
\* status EXCEPTION and the display value "Error during extraction.", not
\* INVALID_JSON and not KEY_MISSING.
C16_AbsentCompletionIsException ==
    (stage = "shown" /\ chain_out \in {ReturnsNone, Returns(<<>>)}) =>
        /\ Status(shown) = "EXCEPTION"
        /\ shown.final_answer_value = ErrorDuringExtraction

\* a parsed payload that is no mapping, or a mapping with neither the
\* attribute key nor the "error" key
C17_KeylessPayload(payload) ==
    \/ payload.t # "dict"
    \/ (~DictHas(payload, attr) /\ ~DictHas(payload, ErrorKey))

\* C17: a normalized string that parses to a non-mapping, or to a mapping
\* with neither the attribute key nor an "error" key, gets the status
\* KEY_MISSING, the display value "Key not found in JSON" and a red badge.
C17_KeyMissingDisplay ==
    (stage = "shown" /\ shown.json_string_to_parse # <<>>
        /\ JsonLoads(shown.json_string_to_parse).ok
        /\ C17_KeylessPayload(JsonLoads(shown.json_string_to_parse).val)) =>
        /\ Status(shown) = "KEY_MISSING"
        /\ shown.final_answer_value = KeyNotFoundInJSON
        /\ shown.badge_color = RED

\* what C18 asks of the card of a mapping whose attribute key holds value
C18_KeyValueShown(value) ==
    /\ shown.final_answer_value = PyStr(value)
    /\ Status(shown) =
          (IF value.t = "str" /\ value.s = NOT_FOUND THEN "NOT_FOUND" ELSE "OK")
    /\ shown.badge_color = ColourOfStatus(Status(shown))

C18_Payload(payload) ==
    (payload.t = "dict" /\ DictHas(payload, attr)) =>
        C18_KeyValueShown(DictGet(payload, attr))

\* C18: when the parsed mapping has the attribute key, the card displays
\* the value as text and shows NOT_FOUND exactly for the value NOT FOUND
\* and OK for every other value, also for a value that merely contains
\* "not found", "error" or "rate limit".
C18_KeyPresentIsOkOrNotFound ==
    (stage = "shown" /\ shown.json_string_to_parse # <<>>
        /\ JsonLoads(shown.json_string_to_parse).ok)
        => C18_Payload(JsonLoads(shown.json_string_to_parse).val)

(***************************************************************************)
(* Properties of the context block and the chain (ChainSpec).              *)
(***************************************************************************)

\* the k-th of the n pieces the dividers cut the text into
C19_Piece(text, k, n) ==
    Slice(text,
          IF k = 1 THEN 0
          ELSE Nth(Occurrences(text, Divider), k - 1) + Len(Divider),
          IF k = n THEN Len(text) ELSE Nth(Occurrences(text, Divider), k))

\* the piece is the labelled segment of chunk number k
C19_Labelled(piece, k, doc) ==
    /\ StartsWith(piece, <<"C", "h", "u", "n", "k", " ">> \o Decimal(k) \o <<" ">>)
    /\ doc.source # Absent =>
          Contains(piece, <<"'">> \o doc.source[1] \o <<"'">>)
    /\ Contains(piece,
                <<"(", "P", "a", "g", "e", " ">>
                \o (IF doc.page = Absent THEN <<"N", "/", "A">>
                    ELSE Decimal(doc.page[1]))
                \o <<")">>)
    /\ EndsWith(piece, doc.page_content)

\* C19: format_docs gives the empty string for no chunk; for n chunks it
\* gives n segments in input order, cut by exactly n-1 dividers, the k-th
\* labelled Chunk k with the chunk's source, its page or N/A, and ending
\* with the whole chunk body.
C19_FormatDocsSegments ==
    (stage = "llm" \/ llm_calls # <<>>) =>
        IF docs = <<>> THEN context = <<>>
        ELSE /\ Cardinality(Occurrences(context, Divider)) = Len(docs) - 1
             /\ \A k \in 1..Len(docs) :
                   C19_Labelled(C19_Piece(context, k, Len(docs)), k, docs[k])

\* two chunks, the first without a page, were formatted
C19_Witness ==
    /\ stage = "llm"
    /\ Len(docs) = 2
    /\ docs[1].page = Absent
    /\ docs[2].page # Absent
    /\ Cardinality(Occurrences(context, Divider)) = 1

\* C20: when the retrieval returns no chunk, the LLM is still called,
\* once, with an empty context block (the LLM is skipped only when the
\* retrieval itself raised), and the answer {key: "NOT FOUND"} is shown as
\* NOT FOUND with the yellow badge and no parse error.
C20_EmptyContextStillCalls ==
    /\ Len(llm_calls) <= 1
    /\ (stage \in {"call", "card", "shown"} /\ llm_calls = <<>>) =>
          chain_out = Raises(Timeout)
    /\ (docs = <<>> /\ stage = "llm") => context = <<>>
    /\ (docs = <<>> /\ llm_calls # <<>>) =>
          /\ Len(llm_calls) = 1
          /\ llm_calls[1] = [context |-> <<>>, attribute_key |-> attr]
    /\ (docs = <<>> /\ stage = "shown"
          /\ chain_out = Returns(Obj(attr, Q(NOT_FOUND)))) =>
          /\ Status(shown) = "NOT_FOUND"
          /\ shown.final_answer_value = NOT_FOUND
          /\ shown.badge_color = YELLOW
          /\ ~shown.parse_error

\* no chunk was retrieved, the LLM was called and answered NOT FOUND
C20_Witness ==
    /\ stage = "shown"
    /\ docs = <<>>
    /\ Len(llm_calls) = 1
    /\ llm_calls[1].context = <<>>
    /\ chain_out = Returns(Obj(attr, Q(NOT_FOUND)))
    /\ shown.final_answer_value = NOT_FOUND

(***************************************************************************)
(* Properties of the sessions and the shared collection (SessionSpec).     *)
(***************************************************************************)

\* C12: without a retriever or an LLM no chain is made, and a session
\* without an extraction chain issues no completion call in its run and
\* shows no card: its run ends with the one message of the main area (or
\* of the stopped script).
C12_NoChainNoCalls ==
    \A s \in Sessions :
        /\ session[s].extraction_chain # None =>
              (session[s].retriever # None /\ llm)
        /\ session[s].extraction_chain = None =>
              /\ session[s].calls = 0
              /\ session[s].shown = {}
              /\ session[s].at # "batch"
        /\ session[s].message =>
              (session[s].calls = 0 /\ session[s].shown = {})
        /\ (session[s].at = "idle" /\ session[s].started # 0
              /\ session[s].extraction_chain = None) => session[s].message

\* a run whose ingestion failed ended with the message and no call
C12_Witness ==
    \E s \in Sessions :
        /\ session[s].at = "idle"
        /\ session[s].started # 0
        /\ session[s].retriever = None
        /\ session[s].extraction_chain = None
        /\ session[s].message
        /\ session[s].calls = 0

\* C13: once a session has started a "process documents" action, no result
\* it shows is derived from documents indexed before that action.
C13_NoResultFromOlderDocuments ==
    \A s \in Sessions :
        session[s].started # 0 =>
            \A r \in session[s].shown :
                \A u \in r.from : u >= session[s].started

\* C14: no retrieval of a running batch executes while a setup_vector_store
\* is between deleting and repopulating the collection, or on a collection
\* replaced since the batch started.
C14_NoRetrievalDuringRebuild ==
    \A s \in Sessions :
        \A r \in session[s].shown : ~r.rebuilding /\ ~r.replaced

(***************************************************************************)
(* Properties of the composed prompts (PromptSpec).                        *)
(***************************************************************************)

\* the places where needle occurs in text
C21_Occurs(needle, text) ==
    {i \in 1..(Len(text) - Len(needle) + 1) :
        SubSeq(text, i, i + Len(needle) - 1) = needle}

\* the prose rule naming key k, the head of the example object with key k,
\* and the instructions under their heading
C21_ProseRule(k) == <<"-", " ", "T", "h", "e", " ", "k", "e", "y", " ", "f", "o", "r", " ", "t", "h", "e", " ", "J", "S", "O", "N", " ", "o", "b", "j", "e", "c", "t", " ", "M", "U", "S", "T", " ", "b", "e", " ", "t", "h", "e", " ", "s", "t", "r", "i", "n", "g", ":", " ", "\"">> \o k \o <<"\"", "\n">>
C21_ExampleHead(k) == <<"E", "x", "a", "m", "p", "l", "e", " ", "O", "u", "t", "p", "u", "t", " ", "F", "o", "r", "m", "a", "t", ":", "\n", "{", "\"">> \o k \o <<"\"", ":", " ", "\"">>
C21_Instructed(instructions) == <<"E", "x", "t", "r", "a", "c", "t", "i", "o", "n", " ", "I", "n", "s", "t", "r", "u", "c", "t", "i", "o", "n", "s", ":", "\n">> \o instructions \o <<"\n">>

C21_Composed(x, text) ==
    /\ C21_Occurs(C21_Instructed(x.extraction_instructions), text) # {}
    /\ \E i \in C21_Occurs(C21_ProseRule(x.attribute_key), text) :
          \E j \in C21_Occurs(C21_ExampleHead(x.attribute_key), text) :
              j > i + Len(C21_ProseRule(x.attribute_key))

\* C21: in both modes the composed prompt carries the instructions verbatim
\* and names the attribute key in the prose rule and again in the example
\* output object.
C21_PromptNamesKeyTwice ==
    prompt_input # <<>> => C21_Composed(prompt_input, prompt)

\* a prompt of the web chain was composed from instructions and scraped
\* text that contain braces
C21_Witness ==
    /\ prompt_input # <<>>
    /\ prompt_input.chain = "web"
    /\ prompt_input.attribute_key = NumberOfCavities
    /\ C21_Occurs(<<"{", "{", "x", "}", "}">>, prompt_input.extraction_instructions) # {}
    /\ C21_Occurs(<<"{">>, prompt_input.cleaned_web_data) # {}
    /\ Len(prompt) > Len(prompt_input.extraction_instructions)

(***************************************************************************)
(* Further properties of the normalizer and the card (OneSpec).            *)
(***************************************************************************)

\* the text after the reasoning-block and fence steps
C22_Cleaned(response) == StripFence(StripThink(response))

\* the part from the first '{' to the last '}' of text c, if there is one
C22_Braced(c) ==
    IF Find(c, <<"{">>) # -1 /\ RFind(c, <<"}">>) > Find(c, <<"{">>)
    THEN <<Slice(c, Find(c, <<"{">>), RFind(c, <<"}">>) + 1)>>
    ELSE <<>>

C22_BestEffort(c, braced, out) ==
    IF braced # <<>> /\ JsonLoads(braced[1]).ok THEN out = braced[1] ELSE out = c

\* a completion (a string) was returned and run_extraction is over
C22_Case == stage # "call" /\ chain_out.kind = "return" /\ chain_out.text # PyNone

\* C22: brace isolation is best-effort: the normalizer returns the braced
\* part when it parses as JSON and otherwise the text as it stood after the
\* reasoning-block and fence steps, and it never raises.
C22_IsolationIsBestEffort ==
    C22_Case =>
        /\ ~RunExtraction(chain_out, attr).raised
        /\ C22_BestEffort(C22_Cleaned(chain_out.text),
                          C22_Braced(C22_Cleaned(chain_out.text)), returned)

\* a braced part that does not parse was found and the whole cleaned text,
\* prose included, was returned
C22_Witness ==
    /\ C22_Case
    /\ C22_Braced(C22_Cleaned(chain_out.text)) # <<>>
    /\ ~JsonLoads(C22_Braced(C22_Cleaned(chain_out.text))[1]).ok
    /\ returned = C22_Cleaned(chain_out.text)
    /\ returned # C22_Braced(C22_Cleaned(chain_out.text))[1]

\* the parsed mapping of the card's text, if the text parses to a mapping
\* with a string under "error"
C25_ErrorOf(loaded) ==
    IF loaded.ok /\ loaded.val.t = "dict" /\ DictHas(loaded.val, ErrorKey)
       /\ DictGet(loaded.val, ErrorKey).t = "str"
    THEN <<DictGet(loaded.val, ErrorKey).s>>
    ELSE <<>>

C25_Decided(error, c) ==
    error # <<>> =>
        IF Contains(Lower(error[1]), rate_limit)
        THEN Status(c) = "RATE_LIMITED"
        ELSE Status(c) = "EXCEPTION" /\ Contains(c.final_answer_value, error[1])

\* C25: when the parsed mapping has an "error" key the error decides the
\* result (RATE_LIMITED or EXCEPTION with the error text), also when the
\* mapping holds the attribute key as well.
C25_ErrorKeyDecides ==
    stage = "shown" =>
        C25_Decided(C25_ErrorOf(JsonLoads(shown.json_string_to_parse)), shown)

\* the cleaning steps of the normalizer, in order
C30_Clean(text) == IsolateJson(StripFence(StripThink(text)))

C30_Fixed(out) == C30_Clean(out) = out /\ CardThinkStrip(out) = Strip(out)

\* C30: the cleaning steps applied to the normalizer's output leave it
\* unchanged, and the reasoning-block strip of the card changes the
\* returned text by no more than trimming whitespace.
C30_NormalizationIdempotent ==
    (stage # "call" /\ chain_out.kind = "return" /\ chain_out.text # PyNone)
        => C30_Fixed(returned)

(***************************************************************************)
(* Further properties of the sessions and the collection (SessionSpec).    *)
(***************************************************************************)

\* C23: whenever setup_vector_store returns a retriever, the collection
\* holds exactly the chunks of the documents passed to that call.
C23_RetrieverOverOwnChunksOnly ==
    [][\A s \in Sessions :
          (session[s].at = "populate" /\ session'[s].retriever # None) =>
              collection'.docs = {session[s].started}]_vars

\* C26: at the end of each script run a session has an extraction chain
\* only if it has a retriever, and it has a retriever exactly when its list
\* of processed files is not empty.
C26_SessionStateConsistent ==
    \A s \in Sessions :
        session[s].at = "idle" =>
            /\ session[s].extraction_chain # None => session[s].retriever # None
            /\ session[s].retriever # None <=> session[s].processed_files # <<>>

\* a run that indexed its upload and failed to create the chain has ended
C26_Witness ==
    \E s \in Sessions :
        /\ session[s].at = "idle"
        /\ session[s].started # 0
        /\ session[s].retriever # None
        /\ session[s].processed_files = <<session[s].started>>
        /\ session[s].extraction_chain = None

(***************************************************************************)
(* Properties of the document ingestion (IngestSpec).                      *)
(***************************************************************************)

\* the tasks that processed the bytes of the j-th uploaded file
C24_TasksOf(j) == {i \in 1..Len(opened) : opened[i] = j}

\* C24: at no time are more than min(n, 4) documents being processed, the
\* function is past its pool only when every task has finished, and every
\* uploaded file is processed exactly once.
C24_BoundedPoolEveryFileOnce ==
    /\ Cardinality(FilesRunning) <= Min(Len(uploaded_files), 4)
    /\ (ingest_pc \in {"cleanup", "done", "raised"} /\ tasks # <<>>) =>
          \A i \in 1..Len(tasks) : tasks[i] = "done"
    /\ (ingest_pc = "done" /\ tasks # <<>>) =>
          \A j \in 1..Len(uploaded_files) : Cardinality(C24_TasksOf(j)) = 1

C27_ClientIsSingleton ==
    /\ constructed <= 1
    /\ \A c, d \in Callers :
          (callers[c].at = "done" /\ callers[d].at = "done") =>
              callers[c].got = callers[d].got

\* the requests for product data made by the current call
C28_ProductRequests == {i \in 1..Len(http) : http[i].url = "product"}

\* position of the call in the function text
C28_Rank(at) ==
    CASE at = "token" -> 1 [] at = "request" -> 2 [] at = "refresh" -> 3
      [] at = "retry" -> 4 [] OTHER -> 5

C28_Bounded ==
    /\ Cardinality(C28_ProductRequests) <= 2
    /\ Len(http) <= 4
    /\ tp_pc = "done" <=> tp_result \in {"data", "None"}
    /\ tp_result = "data" =>
          http[Len(http)] = [url |-> "product", outcome |-> "200"]
    /\ Cardinality(C28_ProductRequests) = 2 =>
          \E i \in 1..Len(http) - 2 :
              /\ http[i] = [url |-> "product", outcome |-> "401"]
              /\ http[i + 1] = [url |-> "auth", outcome |-> "200"]
              /\ http[i + 2].url = "product"
              /\ i + 2 = Len(http)
    /\ tp_pc = "refresh" => token_cache = "None"

\* C28: a call makes at most two product requests, the second only after a
\* 401 and a refreshed token; it returns the data only of a 200 response
\* and None otherwise; every step of a call moves it forward, so the call
\* ends.
C28_AtMostOneRetry ==
    /\ []C28_Bounded
    /\ [][tp_pc # "done" => C28_Rank(tp_pc') > C28_Rank(tp_pc)]_vars

\* a call with a cached token got a 401, refreshed the token, retried, got
\* a 401 again and returned None
C28_Witness ==
    /\ tp_pc = "done"
    /\ tp_result = "None"
    /\ http = <<[url |-> "product", outcome |-> "401"],
                [url |-> "auth", outcome |-> "200"],
                [url |-> "product", outcome |-> "401"]>>

=============================================================================
